---- MODULE Spec2Model ----
(***************************************************************************)
(* Text chunking and audio stitching of the Kokoro TTS wrapper.            *)
(*                                                                         *)
(* A string is a sequence of one-character strings; a byte buffer is a     *)
(* sequence of integers 0..255; a sample buffer is a sequence of integers. *)
(***************************************************************************)
EXTENDS Integers, Sequences, FiniteSets, TLC

VARIABLES
    text,            \* split_text_intelligently: the input text
    max_chunk_size,  \* split_text_intelligently: the limit
    chunks,          \* split_text_intelligently: the returned list
    cpc,             \* "ready" before the call, "done" after it; "run", "ret" and
                     \* "raised" while the call is followed statement by statement
    stack,           \* the frames of the calls in progress, innermost last
    retval,          \* the list handed back by the call that returned last
    audio1,          \* crossfade_audio: first sample buffer
    audio2,          \* crossfade_audio: second sample buffer
    sample_rate,     \* crossfade_audio: samples per second
    fade_duration,   \* crossfade_audio: seconds, as the fraction <<num, den>>
    faded,           \* crossfade_audio: [raised, audio], the outcome of the call
    xpc,             \* "ready" before the call, "done" after it
    total,           \* generate_speech_chunked: number of text chunks
    env_concurrency, \* value of KOKORO_TTS_MAX_CONCURRENCY: [kind, n]
    max_concurrency, \* generate_speech_chunked: the clamped concurrency
    sem,             \* asyncio.Semaphore: free slots
    waiters,         \* asyncio.Semaphore: workers waiting for a slot, oldest first
    woken,           \* asyncio.Semaphore: the waiters whose future has its result
    wstate,          \* per chunk index: where its worker is
    outcome,         \* per chunk index: [exc, hex], what its thread produced
    finished,        \* chunk indexes in the order their workers completed
    log,             \* lines printed to stderr, as [msg, idx]
    output,          \* the hex string generate_speech_chunked returns
    gpc,             \* "start", "gather", then "returned" or "failed"
    path,            \* which synthesis path handles the request
    tuples,          \* the waveforms the pipeline yields, [none, audio] each
    request_rate,    \* request.sample_rate of the /tts handlers
    calls,           \* calls made into assembly and the WAV writer: [callee, args]
    reply,           \* [error, audio]: what the path hands back
    tpc,             \* "ready" before the request, "done" after it
    buffers,         \* concatenate_audio_chunks: the list audio_chunks
    concat_rate,     \* concatenate_audio_chunks: sample_rate
    concatenated,    \* concatenate_audio_chunks: [raised, audio]
    kpc,             \* "ready" before the call, "done" after it
    chunk_buffers,   \* the splice: per-chunk byte buffers, in chunk order
    assembled,       \* the splice: [failed, pcm, hex, printed]
    apc,             \* "ready" before the splice, "done" after it
    pcm_len,         \* the framing of a silent payload: its length in bytes
    framed,          \* the framing: [header, rate, channels, bits, payload]
    rpc,             \* "ready" before the framing, "done" after it
    app,             \* the backend that serves POST /tts: "main" or "main_simple"
    pipelines,       \* the language codes that have a pipeline
    model,           \* main_simple.py: whether the global model is set
    request,         \* TTSRequest: [voice, lang_code]
    faults,          \* what fails inside the library during this request
    response,        \* [status, load_calls, synth_calls]
    qpc,             \* "ready" before the request, "done" after it
    service,         \* the KokoroTTSWrapper instance: its fields
    host,            \* what torch reports about the machine
    init_call,       \* the last call of initialize: its arguments and what it did
    fallbacks,       \* how often this instance switched from CUDA to CPU
    line,            \* main: what sys.stdin.readline() returned last
    nread,           \* main: the non-blank lines read so far
    stdout,          \* main: the lines written to stdout, in order
    lpc,             \* main: "startup", "loop", "ended" or "exit"
    issued,          \* main_simple.py: how many ids uuid.uuid4() has given to /tts
    progress_data,   \* main_simple.py: request id -> [present, progress, timestamp]
    progress_lock,   \* main_simple.py: "free", or "stream" while the generator holds it
    gen,             \* the generator of progress_stream: [request_id, pc, last_progress]
    loop_thread,     \* the event-loop thread: "idle" between tasks, "blocked" in acquire()
    now,             \* time.time(), in seconds
    event            \* the stage of the event the generator yielded last

chunkerVars == <<text, max_chunk_size, chunks, cpc>>

frameVars == <<stack, retval>>

fadeVars == <<audio1, audio2, sample_rate, fade_duration, faded, xpc>>

synthVars == <<total, env_concurrency, max_concurrency, sem, waiters, woken, wstate,
               outcome, finished, log, output, gpc>>

ttsVars == <<path, tuples, request_rate, calls, reply, tpc>>

concatVars == <<buffers, concat_rate, concatenated, kpc>>

spliceVars == <<chunk_buffers, assembled, apc>>

roundTripVars == <<pcm_len, framed, rpc>>

requestVars == <<app, pipelines, model, request, faults, response, qpc>>

wrapperVars == <<service, host, init_call, fallbacks>>

loopVars == <<line, nread, stdout, lpc>>

progressVars == <<issued, progress_data, progress_lock, gen, loop_thread, now, event>>

serviceVars == <<requestVars, wrapperVars, loopVars, progressVars>>

assemblyVars == <<ttsVars, concatVars, spliceVars, roundTripVars, serviceVars>>

vars == <<text, max_chunk_size, chunks, cpc, stack, retval,
          audio1, audio2, sample_rate, fade_duration, faded, xpc,
          total, env_concurrency, max_concurrency, sem, waiters, woken, wstate,
          outcome, finished, log, output, gpc,
          path, tuples, request_rate, calls, reply, tpc,
          buffers, concat_rate, concatenated, kpc,
          chunk_buffers, assembled, apc,
          pcm_len, framed, rpc,
          app, pipelines, model, request, faults, response, qpc,
          service, host, init_call, fallbacks,
          line, nread, stdout, lpc,
          issued, progress_data, progress_lock, gen, loop_thread, now, event>>

----------------------------------------------------------------------------
(* Bounds of the model *)

MaxLen == 6

MaxSize == 4

MaxTraceLen == 3

MaxBuf == 3

MaxRate == 2

MaxChunks == 3

MaxSamples == 1

MaxBuffers == 3

MaxBufLen == 2

MaxWave == 1

MaxTuples == 3

MaxPayload == 4

MaxResults == 2

MaxPairs == 60

\* calls of initialize on one wrapper
MaxCalls == 2

\* non-blank lines on stdin
MaxLines == 2

\* POST /tts requests, numbered in the order of their uuid4
MaxRequests == 2

\* steps of the clock
MaxTicks == 2

----------------------------------------------------------------------------
(* Characters and Python string primitives *)

(* For the text chunker a character is its code point, the ord(c) of Python, *)
(* and a text is the sequence of its characters.                             *)

\* the printable ASCII characters in their order: U+0020 to U+005F, and
\* U+0061 to U+007E (a string of a module cannot hold U+0060)
PrintableLow ==
    << " ", "!", "\"", "#", "$", "%", "&", "'", "(", ")", "*", "+", ",", "-", ".", "/",
       "0", "1", "2", "3", "4", "5", "6", "7", "8", "9", ":", ";", "<", "=", ">", "?",
       "@", "A", "B", "C", "D", "E", "F", "G", "H", "I", "J", "K", "L", "M", "N", "O",
       "P", "Q", "R", "S", "T", "U", "V", "W", "X", "Y", "Z", "[", "\\", "]", "^", "_" >>

PrintableHigh ==
    << "a", "b", "c", "d", "e", "f", "g", "h", "i", "j", "k", "l", "m", "n", "o", "p",
       "q", "r", "s", "t", "u", "v", "w", "x", "y", "z", "{", "|", "}", "~" >>

\* ord(c) for a tab, a line feed, a carriage return or one of these characters
ord(c) ==
    CASE c = "\t" -> 9
      [] c = "\n" -> 10
      [] c = "\r" -> 13
      [] \E k \in DOMAIN PrintableLow : PrintableLow[k] = c ->
            31 + CHOOSE k \in DOMAIN PrintableLow : PrintableLow[k] = c
      [] OTHER -> 96 + CHOOSE k \in DOMAIN PrintableHigh : PrintableHigh[k] = c

\* the text whose characters are written one by one in s
Chars(s) == [k \in DOMAIN s |-> ord(s[k])]

Space == ord(" ")

Comma == ord(",")

LineFeed == ord("\n")

Alphabet == {ord("a"), Space, Comma, ord("."), LineFeed}

\* the characters str.strip() removes and \s matches, those for which
\* str.isspace() is true: U+0009..U+000D, U+001C..U+0020, U+0085, U+00A0,
\* U+1680, U+2000..U+200A, U+2028, U+2029, U+202F, U+205F and U+3000
Whitespace ==
    (9..13) \cup (28..32) \cup {133, 160, 5760} \cup (8192..8202)
        \cup {8232, 8233, 8239, 8287, 12288}

SentenceEnd == {ord("."), ord("!"), ord("?")}

CommaSpace == <<Comma, Space>>

ParagraphBreak == <<LineFeed, LineFeed>>

IsSpace(c) == c \in Whitespace

Min(a, b) == IF a <= b THEN a ELSE b

RECURSIVE StringsUpTo(_)
StringsUpTo(n) ==
    IF n = 0 THEN {<<>>}
    ELSE LET shorter == StringsUpTo(n - 1)
         IN  shorter \cup {Append(s, c) : s \in {t \in shorter : Len(t) = n - 1}, c \in Alphabet}

\* s[i:] of Python, 0-based start
From(s, i) == SubSeq(s, i + 1, Len(s))

\* s[i:j] of Python, 0-based, j exclusive
Slice(s, i, j) == SubSeq(s, i + 1, Min(j, Len(s)))

RECURSIVE LStripOf(_, _)
LStripOf(s, cs) ==
    IF s # <<>> /\ Head(s) \in cs THEN LStripOf(Tail(s), cs) ELSE s

RECURSIVE RStripOf(_, _)
RStripOf(s, cs) ==
    IF s # <<>> /\ s[Len(s)] \in cs THEN RStripOf(SubSeq(s, 1, Len(s) - 1), cs) ELSE s

\* str.strip()
Strip(s) == LStripOf(RStripOf(s, Whitespace), Whitespace)

\* str.rstrip(', '): removes trailing characters that are a comma or a space
RStripCommaSpace(s) == RStripOf(s, {Comma, Space})

\* ''.join(ss), b''.join(ss)
RECURSIVE Concat(_)
Concat(ss) == IF ss = <<>> THEN <<>> ELSE Head(ss) \o Concat(Tail(ss))

StartsWith(s, p) == Len(s) >= Len(p) /\ SubSeq(s, 1, Len(p)) = p

\* str.split(sep): always at least one part
RECURSIVE SplitLoop(_, _, _, _)
SplitLoop(s, sep, cur, parts) ==
    IF s = <<>> THEN Append(parts, cur)
    ELSE IF StartsWith(s, sep)
         THEN SplitLoop(From(s, Len(sep)), sep, <<>>, Append(parts, cur))
         ELSE SplitLoop(Tail(s), sep, Append(cur, Head(s)), parts)

Split(s, sep) == SplitLoop(s, sep, <<>>, <<>>)

\* length of the run of whitespace at the head of s
RECURSIVE SpaceRun(_)
SpaceRun(s) == IF s # <<>> /\ IsSpace(Head(s)) THEN 1 + SpaceRun(Tail(s)) ELSE 0

\* length of the run of non-whitespace at the head of s
RECURSIVE WordRun(_)
WordRun(s) == IF s # <<>> /\ ~IsSpace(Head(s)) THEN 1 + WordRun(Tail(s)) ELSE 0

\* re.split(r'(?<=[.!?])\s+', text); prev is the character before s, -1 at
\* the start of the text
RECURSIVE SentenceLoop(_, _, _, _)
SentenceLoop(s, prev, cur, parts) ==
    IF s = <<>> THEN Append(parts, cur)
    ELSE IF IsSpace(Head(s)) /\ prev \in SentenceEnd
         THEN SentenceLoop(From(s, SpaceRun(s)), Space, <<>>, Append(parts, cur))
         ELSE SentenceLoop(Tail(s), Head(s), Append(cur, Head(s)), parts)

SplitSentences(s) == SentenceLoop(s, -1, <<>>, <<>>)

\* re.findall(r'\S+\s*', text)
RECURSIVE FindTokens(_)
FindTokens(s) ==
    LET t == LStripOf(s, Whitespace)
        w == WordRun(t)
        n == w + SpaceRun(From(t, w))
    IN  IF t = <<>> THEN <<>>
        ELSE <<SubSeq(t, 1, n)>> \o FindTokens(From(t, n))

----------------------------------------------------------------------------
(* text_chunker.py *)

MAX_CHUNK_CHAR_SIZE == 100

\* if current_chunk.strip(): chunks.append(current_chunk.strip())
Flush_NoGuard(out, current_chunk) == Append(out, Strip(current_chunk))

Flush(out, current_chunk) ==
    IF Strip(current_chunk) # <<>> THEN Append(out, Strip(current_chunk)) ELSE out

\* for i in range(0, len(token), max): chunks.append(token[i:i + max].strip())
RECURSIVE CharCut(_, _)
CharCut(token, max) ==
    IF token = <<>> THEN <<>>
    ELSE <<Strip(Slice(token, 0, max))>> \o CharCut(From(token, max), max)

\* the "for token in tokens" loop of _chunk_by_tokens and its final flush
RECURSIVE TokenLoop(_, _, _, _, _)
TokenLoop(tokens, i, out, current_chunk, max) ==
    IF i > Len(tokens)
    THEN Flush(out, current_chunk)
    ELSE LET token == tokens[i]
             prospective == current_chunk \o token
         IN  IF Len(prospective) <= max
             THEN TokenLoop(tokens, i + 1, out, prospective, max)
             ELSE IF Strip(current_chunk) # <<>>
                  THEN TokenLoop(tokens, i + 1, Flush(out, current_chunk), token, max)
                  ELSE IF Len(token) <= max
                       THEN TokenLoop(tokens, i + 1, out, token, max)
                       ELSE TokenLoop(tokens, i + 1, out \o CharCut(token, max), <<>>, max)

\* _chunk_by_tokens that cuts by characters from the start
chunk_by_tokens_CharsOnly(t, max) == CharCut(t, max)

chunk_by_tokens(t, max) == TokenLoop(FindTokens(t), 1, <<>>, <<>>, max)

\* segment = part + ", " if part != parts[-1] else part
Segment(parts, i) ==
    IF parts[i] # parts[Len(parts)] THEN parts[i] \o CommaSpace ELSE parts[i]

\* for chunk_part in word_chunks[:-1]: chunks.append(chunk_part.rstrip(', '))
AllButLastRStripped(word_chunks) ==
    [k \in 1..(Len(word_chunks) - 1) |-> RStripCommaSpace(word_chunks[k])]

\* the "for part in parts" loop of split_by_commas and its final flush
RECURSIVE CommaLoop(_, _, _, _, _)
CommaLoop(parts, i, out, current_chunk, max) ==
    IF i > Len(parts)
    THEN IF Strip(current_chunk) # <<>>
         THEN Append(out, RStripCommaSpace(current_chunk))
         ELSE out
    ELSE LET segment == Segment(parts, i)
             prospective == current_chunk \o segment
             flush == Strip(current_chunk) # <<>>
             out1 == IF flush THEN Append(out, RStripCommaSpace(current_chunk)) ELSE out
             cur1 == IF flush THEN <<>> ELSE current_chunk
             word_chunks == chunk_by_tokens(segment, max)
         IN  IF Len(prospective) <= max
             THEN CommaLoop(parts, i + 1, out, prospective, max)
             ELSE IF Len(segment) > max
                  THEN IF word_chunks = <<>>
                       THEN CommaLoop(parts, i + 1, out1, cur1, max)
                       ELSE CommaLoop(parts, i + 1,
                                      out1 \o AllButLastRStripped(word_chunks),
                                      word_chunks[Len(word_chunks)], max)
                  ELSE CommaLoop(parts, i + 1, out1, segment, max)

\* the "normalized" pass of split_by_commas
Normalize_Skipped(cs, max) == cs

RECURSIVE Normalize(_, _)
Normalize(cs, max) ==
    IF cs = <<>> THEN <<>>
    ELSE (IF Len(Head(cs)) > max THEN chunk_by_tokens(Head(cs), max) ELSE <<Head(cs)>>)
         \o Normalize(Tail(cs), max)

\* [c for c in normalized if c]
DropEmpty(cs) == SelectSeq(cs, LAMBDA c : c # <<>>)

split_by_commas(t, max) ==
    DropEmpty(Normalize(CommaLoop(Split(t, CommaSpace), 1, <<>>, <<>>, max), max))

\* the sentence loop that closes the chunk after every sentence
RECURSIVE SentenceChunkLoop_OnePerChunk(_, _, _, _, _)
SentenceChunkLoop_OnePerChunk(sentences, i, out, current_chunk, max) ==
    IF i > Len(sentences)
    THEN out
    ELSE SentenceChunkLoop_OnePerChunk(sentences, i + 1,
             IF Len(sentences[i]) > max
             THEN out \o split_by_commas(sentences[i], max)
             ELSE Flush(out, sentences[i]),
             current_chunk, max)

\* the "for sentence in sentences" loop of split_by_sentences and its final flush
RECURSIVE SentenceChunkLoop(_, _, _, _, _)
SentenceChunkLoop(sentences, i, out, current_chunk, max) ==
    IF i > Len(sentences)
    THEN Flush(out, current_chunk)
    ELSE LET sentence == sentences[i]
             flush == Strip(current_chunk) # <<>>
             out1 == Flush(out, current_chunk)
             cur1 == IF flush THEN <<>> ELSE current_chunk
         IN  IF Len(current_chunk \o sentence) <= max
             THEN SentenceChunkLoop(sentences, i + 1, out, current_chunk \o sentence \o <<Space>>, max)
             ELSE IF Len(sentence) > max
                  THEN SentenceChunkLoop(sentences, i + 1,
                                         out1 \o split_by_commas(sentence, max), cur1, max)
                  ELSE SentenceChunkLoop(sentences, i + 1, out1, sentence \o <<Space>>, max)

split_by_sentences(t, max) ==
    SentenceChunkLoop(SplitSentences(t), 1, <<>>, <<>>, max)

\* the "for paragraph in paragraphs" loop of split_text_intelligently and its final flush
RECURSIVE ParagraphLoop(_, _, _, _, _)
ParagraphLoop(paragraphs, i, out, current_chunk, max) ==
    IF i > Len(paragraphs)
    THEN Flush(out, current_chunk)
    ELSE LET paragraph == paragraphs[i]
             flush == Strip(current_chunk) # <<>>
             out1 == Flush(out, current_chunk)
             cur1 == IF flush THEN <<>> ELSE current_chunk
         IN  IF Len(current_chunk \o paragraph) <= max
             THEN ParagraphLoop(paragraphs, i + 1, out,
                                current_chunk \o paragraph \o ParagraphBreak, max)
             ELSE IF Len(paragraph) > max
                  THEN ParagraphLoop(paragraphs, i + 1,
                                     out1 \o split_by_sentences(paragraph, max), cur1, max)
                  ELSE ParagraphLoop(paragraphs, i + 1, out1, paragraph \o ParagraphBreak, max)

split_text_intelligently(t, max) ==
    ParagraphLoop(Split(t, ParagraphBreak), 1, <<>>, <<>>, max)

----------------------------------------------------------------------------
(* Parts of the state that a specification does not use stay as constructed *)

FadeIdle ==
    /\ audio1 = <<>>
    /\ audio2 = <<>>
    /\ sample_rate = 0
    /\ fade_duration = <<0, 1>>
    /\ faded = [raised |-> FALSE, audio |-> <<>>]
    /\ xpc = "off"

SynthIdle ==
    /\ total = 0
    /\ env_concurrency = [kind |-> "unset", n |-> 0]
    /\ max_concurrency = 0
    /\ sem = 0
    /\ waiters = <<>>
    /\ woken = {}
    /\ wstate = <<>>
    /\ outcome = <<>>
    /\ finished = <<>>
    /\ log = <<>>
    /\ output = <<>>
    /\ gpc = "off"

TtsIdle ==
    /\ path = "none"
    /\ tuples = <<>>
    /\ request_rate = 0
    /\ calls = <<>>
    /\ reply = [error |-> FALSE, audio |-> <<>>]
    /\ tpc = "off"

ConcatIdle ==
    /\ buffers = <<>>
    /\ concat_rate = 0
    /\ concatenated = [raised |-> FALSE, audio |-> <<>>]
    /\ kpc = "off"

SpliceIdle ==
    /\ chunk_buffers = <<>>
    /\ assembled = [failed |-> FALSE, pcm |-> <<>>, hex |-> <<>>, printed |-> <<>>]
    /\ apc = "off"

\* a payload of n zero bytes preceded by the bytes head
Silence(head, n) == [head |-> head, zeros |-> n]

RoundTripIdle ==
    /\ pcm_len = 0
    /\ framed = [header |-> <<>>, rate |-> 0, channels |-> 0, bits |-> 0,
                 kept |-> FALSE, payload |-> Silence(<<>>, 0)]
    /\ rpc = "off"

RequestIdle ==
    /\ app = "none"
    /\ pipelines = {}
    /\ model = FALSE
    /\ request = [voice |-> "", lang_code |-> ""]
    /\ faults = {}
    /\ response = [status |-> 0, load_calls |-> 0, synth_calls |-> 0]
    /\ qpc = "off"

\* KokoroTTSWrapper.__init__ with its default arguments
NewWrapper ==
    [pipeline |-> "None", device |-> "None", voice_pack |-> "None", initialized |-> FALSE,
     lang_code |-> "a", voice |-> "af_heart",
     current_lang_code |-> "None", current_voice |-> "None",
     gpu_fallback_attempted |-> FALSE]

\* no call of initialize yet.  n numbers the calls; same_again says the call
\* named the language and the voice of a wrapper that was initialized with
\* them, attempted what _gpu_fallback_attempted was when the call began,
\* unchanged that the call left every field as it was
NoCall ==
    [n |-> 0, same_again |-> FALSE, attempted |-> FALSE, unchanged |-> TRUE,
     raised |-> FALSE, reentries |-> 0, failures |-> 0, pipelines |-> 0, loads |-> 0,
     setups |-> <<>>]

WrapperIdle ==
    /\ service = NewWrapper
    /\ host = "none"
    /\ init_call = NoCall
    /\ fallbacks = 0

\* a line that is whitespace only
BlankLine == [kind |-> "blank"]

LoopIdle ==
    /\ line = BlankLine
    /\ nread = 0
    /\ stdout = <<>>
    /\ lpc = "off"

ProgressIdle ==
    /\ issued = 0
    /\ progress_data = <<>>
    /\ progress_lock = "free"
    /\ gen = [request_id |-> 0, pc |-> "off", last_progress |-> -1]
    /\ loop_thread = "idle"
    /\ now = 0
    /\ event = "none"

ServiceIdle == RequestIdle /\ WrapperIdle /\ LoopIdle /\ ProgressIdle

AssemblyIdle == TtsIdle /\ ConcatIdle /\ SpliceIdle /\ RoundTripIdle /\ ServiceIdle

ChunkerIdle ==
    /\ text = <<>>
    /\ max_chunk_size = 0
    /\ chunks = <<>>
    /\ cpc = "off"
    /\ stack = <<>>
    /\ retval = <<>>

----------------------------------------------------------------------------
(* The caller of the segmenter: one call on one text *)

ChunkInit ==
    /\ text \in StringsUpTo(MaxLen)
    /\ max_chunk_size \in 1..MaxSize
    /\ chunks = <<>>
    /\ cpc = "ready"
    /\ stack = <<>>
    /\ retval = <<>>
    /\ FadeIdle
    /\ SynthIdle
    /\ AssemblyIdle

CallSplit ==
    /\ cpc = "ready"
    /\ chunks' = split_text_intelligently(text, max_chunk_size)
    /\ cpc' = "done"
    /\ UNCHANGED <<text, max_chunk_size, frameVars, fadeVars, synthVars, assemblyVars>>

ChunkNext == CallSplit

SpecChunk == ChunkInit /\ [][ChunkNext]_vars

----------------------------------------------------------------------------
(* The same call followed statement by statement: one frame per function in   *)
(* progress, one step per loop iteration, call and return.                    *)

Frame(fn, units) == [fn |-> fn, units |-> units, i |-> 1, out |-> <<>>, cur |-> <<>>, ci |-> -1]

Top == stack[Len(stack)]

SetTop(f) == [stack EXCEPT ![Len(stack)] = f]

Push(f, callee) == Append(SetTop(f), callee)

Pop == SubSeq(stack, 1, Len(stack) - 1)

InLoop(fn) ==
    /\ cpc = "run"
    /\ stack # <<>>
    /\ Top.fn = fn
    /\ Top.ci = -1
    /\ Top.i <= Len(Top.units)

\* the step of range(0, len(token), max_chunk_size)
CutStep_Overlap(max) == max - 1

CutStep(max) == max

\* chunks = split_text_intelligently(text, max_chunk_size) is entered
TraceBegin ==
    /\ cpc = "ready"
    /\ stack' = <<Frame("paragraphs", Split(text, ParagraphBreak))>>
    /\ cpc' = "run"
    /\ UNCHANGED <<text, max_chunk_size, chunks, retval, fadeVars, synthVars, assemblyVars>>

\* one iteration of "for paragraph in paragraphs"
ParagraphStep ==
    /\ InLoop("paragraphs")
    /\ LET f == Top
           paragraph == f.units[f.i]
           flush == Strip(f.cur) # <<>>
           flushed == [f EXCEPT !.out = Flush(f.out, f.cur),
                                !.cur = IF flush THEN <<>> ELSE f.cur]
       IN  IF Len(f.cur \o paragraph) <= max_chunk_size
           THEN stack' = SetTop([f EXCEPT !.cur = f.cur \o paragraph \o ParagraphBreak,
                                          !.i = f.i + 1])
           ELSE IF Len(paragraph) > max_chunk_size
                THEN stack' = Push(flushed, Frame("sentences", SplitSentences(paragraph)))
                ELSE stack' = SetTop([flushed EXCEPT !.cur = paragraph \o ParagraphBreak,
                                                     !.i = f.i + 1])
    /\ UNCHANGED <<text, max_chunk_size, chunks, cpc, retval, fadeVars, synthVars, assemblyVars>>

\* one iteration of "for sentence in sentences"
SentenceStep ==
    /\ InLoop("sentences")
    /\ LET f == Top
           sentence == f.units[f.i]
           flush == Strip(f.cur) # <<>>
           flushed == [f EXCEPT !.out = Flush(f.out, f.cur),
                                !.cur = IF flush THEN <<>> ELSE f.cur]
       IN  IF Len(f.cur \o sentence) <= max_chunk_size
           THEN stack' = SetTop([f EXCEPT !.cur = f.cur \o sentence \o <<Space>>,
                                          !.i = f.i + 1])
           ELSE IF Len(sentence) > max_chunk_size
                THEN stack' = Push(flushed, Frame("parts", Split(sentence, CommaSpace)))
                ELSE stack' = SetTop([flushed EXCEPT !.cur = sentence \o <<Space>>,
                                                     !.i = f.i + 1])
    /\ UNCHANGED <<text, max_chunk_size, chunks, cpc, retval, fadeVars, synthVars, assemblyVars>>

\* one iteration of "for part in parts"
CommaStep ==
    /\ InLoop("parts")
    /\ LET f == Top
           segment == Segment(f.units, f.i)
           flush == Strip(f.cur) # <<>>
           flushed == [f EXCEPT !.out = IF flush THEN Append(f.out, RStripCommaSpace(f.cur))
                                                 ELSE f.out,
                                !.cur = IF flush THEN <<>> ELSE f.cur]
       IN  IF Len(f.cur \o segment) <= max_chunk_size
           THEN stack' = SetTop([f EXCEPT !.cur = f.cur \o segment, !.i = f.i + 1])
           ELSE IF Len(segment) > max_chunk_size
                THEN stack' = Push(flushed, Frame("tokens", FindTokens(segment)))
                ELSE stack' = SetTop([flushed EXCEPT !.cur = segment, !.i = f.i + 1])
    /\ UNCHANGED <<text, max_chunk_size, chunks, cpc, retval, fadeVars, synthVars, assemblyVars>>

\* one iteration of "for chunk in chunks" of the normalized pass
NormalizeStep ==
    /\ InLoop("normalized")
    /\ LET f == Top
           chunk == f.units[f.i]
       IN  IF Len(chunk) > max_chunk_size
           THEN stack' = Push(f, Frame("tokens", FindTokens(chunk)))
           ELSE stack' = SetTop([f EXCEPT !.out = Append(f.out, chunk), !.i = f.i + 1])
    /\ UNCHANGED <<text, max_chunk_size, chunks, cpc, retval, fadeVars, synthVars, assemblyVars>>

\* one iteration of "for token in tokens"; an oversized token met with an
\* empty buffer enters the range() loop, which raises when its step is 0
TokenStep ==
    /\ InLoop("tokens")
    /\ LET f == Top
           token == f.units[f.i]
       IN  IF Len(f.cur \o token) <= max_chunk_size
           THEN /\ stack' = SetTop([f EXCEPT !.cur = f.cur \o token, !.i = f.i + 1])
                /\ cpc' = cpc
           ELSE IF Strip(f.cur) # <<>>
                THEN /\ stack' = SetTop([f EXCEPT !.out = Flush(f.out, f.cur),
                                                  !.cur = token, !.i = f.i + 1])
                     /\ cpc' = cpc
                ELSE IF Len(token) <= max_chunk_size
                     THEN /\ stack' = SetTop([f EXCEPT !.cur = token, !.i = f.i + 1])
                          /\ cpc' = cpc
                     ELSE IF CutStep(max_chunk_size) = 0
                          THEN /\ cpc' = "raised"
                               /\ stack' = stack
                          ELSE /\ stack' = SetTop([f EXCEPT !.ci = 0])
                               /\ cpc' = cpc
    /\ UNCHANGED <<text, max_chunk_size, chunks, retval, fadeVars, synthVars, assemblyVars>>

\* one iteration of "for i in range(0, len(token), max_chunk_size)", or its end
CutStepAction ==
    /\ cpc = "run"
    /\ stack # <<>>
    /\ Top.ci >= 0
    /\ LET f == Top
           token == f.units[f.i]
       IN  IF f.ci < Len(token)
           THEN stack' = SetTop([f EXCEPT
                    !.out = Append(f.out, Strip(Slice(token, f.ci, f.ci + max_chunk_size))),
                    !.ci = f.ci + CutStep(max_chunk_size)])
           ELSE stack' = SetTop([f EXCEPT !.cur = <<>>, !.ci = -1, !.i = f.i + 1])
    /\ UNCHANGED <<text, max_chunk_size, chunks, cpc, retval, fadeVars, synthVars, assemblyVars>>

\* the loop of split_by_commas is over: final flush, then the normalized pass
CommaLoopEnd ==
    /\ cpc = "run"
    /\ stack # <<>>
    /\ Top.fn = "parts"
    /\ Top.i > Len(Top.units)
    /\ LET f == Top
           out == IF Strip(f.cur) # <<>> THEN Append(f.out, RStripCommaSpace(f.cur)) ELSE f.out
       IN  stack' = SetTop(Frame("normalized", out))
    /\ UNCHANGED <<text, max_chunk_size, chunks, cpc, retval, fadeVars, synthVars, assemblyVars>>

\* a loop is over: final flush and return statement of the function
Return ==
    /\ cpc = "run"
    /\ stack # <<>>
    /\ Top.fn # "parts"
    /\ Top.ci = -1
    /\ Top.i > Len(Top.units)
    /\ retval' = IF Top.fn = "normalized" THEN DropEmpty(Top.out) ELSE Flush(Top.out, Top.cur)
    /\ stack' = Pop
    /\ cpc' = "ret"
    /\ UNCHANGED <<text, max_chunk_size, chunks, fadeVars, synthVars, assemblyVars>>

\* the caller takes the returned list and goes on with its loop
Resume ==
    /\ cpc = "ret"
    /\ IF stack = <<>>
       THEN /\ chunks' = retval
            /\ cpc' = "done"
            /\ stack' = stack
       ELSE /\ LET f == Top
               IN  IF f.fn = "parts"
                   THEN IF retval = <<>>
                        THEN stack' = SetTop([f EXCEPT !.i = f.i + 1])
                        ELSE stack' = SetTop([f EXCEPT
                                 !.out = f.out \o AllButLastRStripped(retval),
                                 !.cur = retval[Len(retval)],
                                 !.i = f.i + 1])
                   ELSE stack' = SetTop([f EXCEPT !.out = f.out \o retval, !.i = f.i + 1])
            /\ cpc' = "run"
            /\ chunks' = chunks
    /\ UNCHANGED <<text, max_chunk_size, retval, fadeVars, synthVars, assemblyVars>>

\* longer texts that take the call through all four tiers
TraceSamples ==
    { Chars(<<"a", " ", "a", "a", "a">>),
      Chars(<<"a", ",", " ", "a", "a", " ", "a", "a", "a", ".", " ", "a", "\n", "\n", "a", "a">>),
      Chars(<<"a", "a", "a", ",", " ", "a", ".", " ", " ", "a", " ", "a", ",", " ", "a", "a",
              "a">>) }

TraceInit ==
    /\ text \in StringsUpTo(MaxTraceLen) \cup TraceSamples
    /\ max_chunk_size \in 1..MaxSize
    /\ chunks = <<>>
    /\ cpc = "ready"
    /\ stack = <<>>
    /\ retval = <<>>
    /\ FadeIdle
    /\ SynthIdle
    /\ AssemblyIdle

TraceNext ==
    \/ TraceBegin
    \/ ParagraphStep
    \/ SentenceStep
    \/ CommaStep
    \/ NormalizeStep
    \/ TokenStep
    \/ CutStepAction
    \/ CommaLoopEnd
    \/ Return
    \/ Resume

\* the interpreter runs the call to its end: no step is postponed forever
SpecTrace == TraceInit /\ [][TraceNext]_vars /\ WF_vars(TraceNext)

----------------------------------------------------------------------------
(* main.py: crossfade_audio.  A sample is a fraction <<num, den>> in lowest   *)
(* terms; an array operation gives [err, v], err when numpy raises.          *)

Abs(n) == IF n < 0 THEN -n ELSE n

RECURSIVE GCD(_, _)
GCD(a, b) == IF b = 0 THEN a ELSE GCD(b, a % b)

Frac(n, d) ==
    LET g == GCD(Abs(n), Abs(d))
    IN  IF n = 0 THEN <<0, 1>> ELSE <<n \div g, d \div g>>

FracMul(x, y) == Frac(x[1] * y[1], x[2] * y[2])

FracAdd(x, y) == Frac(x[1] * y[2] + y[1] * x[2], x[2] * y[2])

\* np.linspace(1.0, 0.0, n)
LinspaceDown(n) ==
    [k \in 1..n |-> IF n = 1 THEN <<1, 1>> ELSE Frac(n - k, n - 1)]

\* a fade-in curve that falls like the fade-out curve
LinspaceUp_Falling(n) == LinspaceDown(n)

\* np.linspace(0.0, 1.0, n)
LinspaceUp(n) ==
    [k \in 1..n |-> IF n = 1 THEN <<0, 1>> ELSE Frac(k - 1, n - 1)]

\* the length of x op y for one-dimensional arrays under numpy broadcasting,
\* -1 when the shapes cannot be broadcast together (ValueError)
BroadcastLen(x, y) ==
    IF Len(x) = Len(y) THEN Len(x)
    ELSE IF Len(x) = 1 THEN Len(y)
         ELSE IF Len(y) = 1 THEN Len(x) ELSE -1

\* element k of x once x is broadcast
BroadcastAt(x, k) == IF Len(x) = 1 THEN x[1] ELSE x[k]

\* x * y
ArrayMul(x, y) ==
    LET n == BroadcastLen(x, y)
    IN  [err |-> n = -1,
         v |-> [k \in 1..n |-> FracMul(BroadcastAt(x, k), BroadcastAt(y, k))]]

\* x + y
ArrayAdd(x, y) ==
    LET n == BroadcastLen(x, y)
    IN  [err |-> n = -1,
         v |-> [k \in 1..n |-> FracAdd(BroadcastAt(x, k), BroadcastAt(y, k))]]

\* a[-n:] for 0 <= n <= len(a); a[-0:] is the whole array
LastN(a, n) == IF n = 0 THEN a ELSE SubSeq(a, Len(a) - n + 1, Len(a))

\* a[:-n] for 0 <= n <= len(a); a[:-0] is empty
AllButLastN(a, n) == IF n = 0 THEN <<>> ELSE SubSeq(a, 1, Len(a) - n)

(* fade_duration * sample_rate is a product of two binary64 numbers: a fade  *)
(* duration <<num, den>> stands for the float nearest to num / den, the      *)
(* digits of a float are kept most significant first and a float is         *)
(* [bits, scale], the number bits / 2^scale.                                 *)

\* the significand of a binary64 has 53 binary digits
Precision == 53

\* how many binary digits n >= 0 has
BitLength(n) == Cardinality({k \in 0..30 : 2^k <= n})

\* long numbers are kept in digits of twelve bits, so that no product of a
\* digit and a number below 2^19 leaves the 32 bits of an integer here
Limb == 2^12

LimbBits == BitLength(Limb) - 1

\* digits after the point that hold the 19 zeros a quotient can start with
\* and one binary digit more than the significand
FractionLimbs == (Precision + 1) \div LimbBits + 3

\* the binary digits of n >= 0, most significant first; none for 0
BitsOf(n) == [i \in 1..BitLength(n) |-> (n \div 2^(BitLength(n) - i)) % 2]

\* the number whose binary digits are bits, at most LimbBits of them
RECURSIVE LimbOf(_)
LimbOf(bits) ==
    IF bits = <<>> THEN 0
    ELSE 2 * LimbOf(SubSeq(bits, 1, Len(bits) - 1)) + bits[Len(bits)]

\* bits, cut from the right into digits of LimbBits bits
BitsToLimbs(bits) ==
    LET n == (Len(bits) + LimbBits - 1) \div LimbBits
        lead == Len(bits) - (n - 1) * LimbBits
    IN  [j \in 1..n |->
            IF j = 1 THEN LimbOf(SubSeq(bits, 1, lead))
            ELSE LimbOf(SubSeq(bits, lead + (j - 2) * LimbBits + 1, lead + (j - 1) * LimbBits))]

\* the binary digits of the digits limbs, LimbBits for each
LimbsToBits(limbs) ==
    [i \in 1..(LimbBits * Len(limbs)) |->
        (limbs[(i - 1) \div LimbBits + 1] \div 2^(LimbBits - 1 - ((i - 1) % LimbBits))) % 2]

\* the number whose digits are limbs
RECURSIVE LimbsValue(_)
LimbsValue(limbs) ==
    IF limbs = <<>> THEN 0
    ELSE Limb * LimbsValue(SubSeq(limbs, 1, Len(limbs) - 1)) + limbs[Len(limbs)]

\* bits without its leading zeros
StripZeros(bits) ==
    LET ones == {i \in 1..Len(bits) : bits[i] = 1}
    IN  IF ones = {} THEN <<>>
        ELSE SubSeq(bits, CHOOSE i \in ones : \A j \in ones : i <= j, Len(bits))

\* bits + 1, one digit longer when every digit is 1
Increment(bits) ==
    LET zeros == {i \in 1..Len(bits) : bits[i] = 0}
        last == CHOOSE i \in zeros : \A j \in zeros : j <= i
    IN  IF zeros = {} THEN <<1>> \o [i \in 1..Len(bits) |-> 0]
        ELSE [i \in 1..Len(bits) |-> IF i < last THEN bits[i] ELSE IF i = last THEN 1 ELSE 0]

\* round to nearest, ties to even: the number bits / 2^scale, followed by
\* more digits when inexact, is rounded to Precision digits
RoundToDouble(bits, scale, inexact) ==
    IF Len(bits) <= Precision THEN [bits |-> bits, scale |-> scale]
    ELSE LET kept == SubSeq(bits, 1, Precision)
             dropped == SubSeq(bits, Precision + 1, Len(bits))
             sticky == inexact \/ \E k \in 2..Len(dropped) : dropped[k] = 1
             up == dropped[1] = 1 /\ (sticky \/ kept[Precision] = 1)
         IN  [bits |-> IF up THEN Increment(kept) ELSE kept,
              scale |-> scale - Len(dropped)]

\* long division: the first n digits of r / den after the point, and what is left
RECURSIVE LongDivision(_, _, _)
LongDivision(r, den, n) ==
    IF n = 0 THEN [limbs |-> <<>>, rem |-> r]
    ELSE LET rest == LongDivision((r * Limb) % den, den, n - 1)
         IN  [limbs |-> <<(r * Limb) \div den>> \o rest.limbs, rem |-> rest.rem]

\* the binary64 nearest to num / den, for num >= 0 and 0 < den < 2^19
DoubleOf(num, den) ==
    LET fraction == LongDivision(num % den, den, FractionLimbs)
    IN  RoundToDouble(StripZeros(BitsOf(num \div den) \o LimbsToBits(fraction.limbs)),
                      LimbBits * FractionLimbs, fraction.rem # 0)

\* the digits of limbs * k + carry, for the digits of limbs up to the i-th
RECURSIVE TimesLimbs(_, _, _, _)
TimesLimbs(limbs, k, i, carry) ==
    IF i = 0 THEN <<carry \div Limb, carry % Limb>>
    ELSE Append(TimesLimbs(limbs, k, i - 1, (limbs[i] * k + carry) \div Limb),
                (limbs[i] * k + carry) % Limb)

\* x * k as a binary64, for an integer 0 <= k < 2^19
DoubleTimes(d, k) ==
    LET limbs == BitsToLimbs(d.bits)
    IN  RoundToDouble(StripZeros(LimbsToBits(TimesLimbs(limbs, k, Len(limbs), 0))),
                      d.scale, FALSE)

\* int(x) for x >= 0: the digits left of the binary point
Truncate(d) ==
    IF d.scale >= Len(d.bits) THEN 0
    ELSE LimbsValue(BitsToLimbs(SubSeq(d.bits, 1, Len(d.bits) - d.scale)))

Sign(n) == IF n < 0 THEN -1 ELSE 1

\* int(fade_duration * sample_rate): the float product, cut toward zero
IntOfProduct(sr, fd) ==
    Sign(fd[1]) * Sign(sr) * Truncate(DoubleTimes(DoubleOf(Abs(fd[1]), fd[2]), Abs(sr)))

\* fade_duration: float = 0.1, the default that concatenate_audio_chunks relies on
DefaultFade == <<1, 10>>

\* the fade durations of the calls of crossfade_audio
FadeDurations == {<<0, 1>>, <<1, 10>>, <<1, 2>>, <<1, 1>>, <<3, 2>>}

\* sample rates for which int(0.1 * sample_rate) is 0, 1 and 2
ConcatRates == {1, 10, 20}

\* the products of the sample rates and the fade durations that the callers
\* below pass, each computed once
FadeSamplesOf ==
    [sr \in (1..MaxRate) \cup ConcatRates, fd \in FadeDurations \cup {DefaultFade} |->
        IntOfProduct(sr, fd)]

\* fade_samples = int(fade_duration * sample_rate)
FadeSamples(sr, fd) ==
    IF <<sr, fd>> \in DOMAIN FadeSamplesOf THEN FadeSamplesOf[sr, fd]
    ELSE IntOfProduct(sr, fd)

Min3(a, b, c) == Min(a, Min(b, c))

\* crossfade_audio without the early return for a zero fade
crossfade_audio_NoZeroTest(a1, a2, sr, fd) ==
    LET requested == FadeSamples(sr, fd)
        fade_samples == Min3(requested, Len(a1), Len(a2))
        audio1_end == ArrayMul(LastN(a1, fade_samples), LinspaceDown(fade_samples))
        audio2_start == ArrayMul(SubSeq(a2, 1, fade_samples), LinspaceUp(fade_samples))
        overlap == ArrayAdd(audio1_end.v, audio2_start.v)
    IN  IF fade_samples < 0 \/ audio1_end.err \/ audio2_start.err \/ overlap.err
        THEN [raised |-> TRUE, audio |-> <<>>]
        ELSE [raised |-> FALSE,
              audio |-> AllButLastN(a1, fade_samples) \o overlap.v \o From(a2, fade_samples)]

\* lines 79-102; np.linspace raises ValueError for a negative number of samples
crossfade_audio(a1, a2, sr, fd) ==
    LET requested == FadeSamples(sr, fd)
        fade_samples == Min3(requested, Len(a1), Len(a2))
        audio1_end == ArrayMul(LastN(a1, fade_samples), LinspaceDown(fade_samples))
        audio2_start == ArrayMul(SubSeq(a2, 1, fade_samples), LinspaceUp(fade_samples))
        overlap == ArrayAdd(audio1_end.v, audio2_start.v)
    IN  IF requested = 0
        THEN [raised |-> FALSE, audio |-> a1 \o a2]
        ELSE IF fade_samples < 0 \/ audio1_end.err \/ audio2_start.err \/ overlap.err
             THEN [raised |-> TRUE, audio |-> <<>>]
             ELSE [raised |-> FALSE,
                   audio |-> AllButLastN(a1, fade_samples) \o overlap.v \o From(a2, fade_samples)]

\* for i in range(1, len(audio_chunks)):
\*     result = crossfade_audio(result, audio_chunks[i], sample_rate)
RECURSIVE FoldLoop(_, _, _, _)
FoldLoop(result, audio_chunks, i, sr) ==
    IF i > Len(audio_chunks) THEN [raised |-> FALSE, audio |-> result]
    ELSE LET next == crossfade_audio(result, audio_chunks[i], sr, DefaultFade)
         IN  IF next.raised THEN next
             ELSE FoldLoop(next.audio, audio_chunks, i + 1, sr)

\* concatenate_audio_chunks that joins the buffers end to end
concatenate_audio_chunks_NoFade(audio_chunks, sr) ==
    IF Len(audio_chunks) = 0 THEN [raised |-> TRUE, audio |-> <<>>]
    ELSE [raised |-> FALSE, audio |-> Concat(audio_chunks)]

concatenate_audio_chunks(audio_chunks, sr) ==
    IF Len(audio_chunks) = 0 THEN [raised |-> TRUE, audio |-> <<>>]
    ELSE IF Len(audio_chunks) = 1 THEN [raised |-> FALSE, audio |-> audio_chunks[1]]
    ELSE FoldLoop(audio_chunks[1], audio_chunks, 2, sr)

----------------------------------------------------------------------------
(* The caller of crossfade_audio: one call on two buffers *)

Samples == {<<1, 1>>, <<-2, 1>>}

RECURSIVE BuffersUpTo(_)
BuffersUpTo(n) ==
    IF n = 0 THEN {<<>>}
    ELSE LET shorter == BuffersUpTo(n - 1)
         IN  shorter \cup {Append(b, x) : b \in {c \in shorter : Len(c) = n - 1}, x \in Samples}

FadeInit ==
    /\ audio1 \in BuffersUpTo(MaxBuf)
    /\ audio2 \in BuffersUpTo(MaxBuf)
    /\ sample_rate \in 1..MaxRate
    /\ fade_duration \in FadeDurations
    /\ faded = [raised |-> FALSE, audio |-> <<>>]
    /\ xpc = "ready"
    /\ ChunkerIdle
    /\ SynthIdle
    /\ AssemblyIdle

CallCrossfade ==
    /\ xpc = "ready"
    /\ faded' = crossfade_audio(audio1, audio2, sample_rate, fade_duration)
    /\ xpc' = "done"
    /\ UNCHANGED <<audio1, audio2, sample_rate, fade_duration, chunkerVars, frameVars,
                   synthVars, assemblyVars>>

FadeNext == CallCrossfade

SpecFade == FadeInit /\ [][FadeNext]_vars

----------------------------------------------------------------------------
(* The caller of concatenate_audio_chunks: one call on a list of buffers *)

\* the lists of at most n elements of S
ListsUpTo(S, n) == UNION {[1..k -> S] : k \in 0..n}

ConcatInit ==
    /\ buffers \in ListsUpTo(BuffersUpTo(MaxBufLen), MaxBuffers)
    /\ concat_rate \in ConcatRates
    /\ concatenated = [raised |-> FALSE, audio |-> <<>>]
    /\ kpc = "ready"
    /\ ChunkerIdle
    /\ FadeIdle
    /\ SynthIdle
    /\ TtsIdle
    /\ SpliceIdle
    /\ RoundTripIdle
    /\ ServiceIdle

CallConcatenate ==
    /\ kpc = "ready"
    /\ concatenated' = concatenate_audio_chunks(buffers, concat_rate)
    /\ kpc' = "done"
    /\ UNCHANGED <<buffers, concat_rate, chunkerVars, frameVars, fadeVars, synthVars,
                   ttsVars, spliceVars, roundTripVars, serviceVars>>

ConcatNext == CallConcatenate

SpecConcat == ConcatInit /\ [][ConcatNext]_vars

----------------------------------------------------------------------------
(* The four synthesis paths: what each hands to assembly and to the WAV writer *)

None == [none |-> TRUE, audio |-> <<>>]

Waveform(b) == [none |-> FALSE, audio |-> b]

Waveforms == {None} \cup {Waveform(b) : b \in BuffersUpTo(MaxWave)}

\* [chunk for chunk in audio_chunks if chunk is not None]
NotNone(audio_chunks) == SelectSeq(audio_chunks, LAMBDA w : ~w.none)

HasNone(args) == \E k \in DOMAIN args : args[k].none

AudioOfEach(ws) == [k \in DOMAIN ws |-> ws[k].audio]

Call(callee, args) == [callee |-> callee, args |-> args]

Failure == [error |-> TRUE, audio |-> <<>>]

Success(audio) == [error |-> FALSE, audio |-> audio]

\* main.py, /tts: lines 208-231, with the except of line 241
MainHandler(yielded, rate) ==
    LET audio_chunks == yielded
        joined == concatenate_audio_chunks(AudioOfEach(audio_chunks), rate)
    IN  IF audio_chunks = <<>>
        THEN [calls |-> <<>>, reply |-> Failure]
        ELSE IF Len(audio_chunks) > 1
        THEN IF HasNone(audio_chunks) \/ joined.raised
             THEN [calls |-> <<Call("concatenate_audio_chunks", audio_chunks)>>,
                   reply |-> Failure]
             ELSE [calls |-> <<Call("concatenate_audio_chunks", audio_chunks),
                               Call("sf.write", <<Waveform(joined.audio)>>)>>,
                   reply |-> Success(joined.audio)]
        ELSE [calls |-> <<Call("sf.write", <<audio_chunks[1]>>)>>,
              reply |-> IF audio_chunks[1].none THEN Failure
                        ELSE Success(audio_chunks[1].audio)]

\* main_simple.py, /tts: lines 314-361, with the except of line 376
SimpleHandler(yielded) ==
    LET audio_chunks == yielded
        valid_chunks == NotNone(audio_chunks)
        final_audio == Concat(AudioOfEach(valid_chunks))
    IN  IF audio_chunks = <<>>
        THEN [calls |-> <<>>, reply |-> Failure]
        ELSE IF Len(audio_chunks) > 1
        THEN IF valid_chunks # <<>>
             THEN [calls |-> <<Call("np.concatenate", valid_chunks),
                               Call("sf.write", <<Waveform(final_audio)>>)>>,
                   reply |-> Success(final_audio)]
             ELSE [calls |-> <<>>, reply |-> Failure]
        ELSE IF ~audio_chunks[1].none
        THEN [calls |-> <<Call("sf.write", <<audio_chunks[1]>>)>>,
              reply |-> Success(audio_chunks[1].audio)]
        ELSE [calls |-> <<>>, reply |-> Failure]

\* kokoro_wrapper.py, generate_speech_single (lines 391-456) and
\* _generate_chunk_hex_sync (lines 270-291): keep what is not None, torch.cat, sf.write
WrapperPath(yielded) ==
    LET audio_chunks == NotNone(yielded)
        combined == Concat(AudioOfEach(audio_chunks))
    IN  IF audio_chunks = <<>>
        THEN [calls |-> <<>>, reply |-> Failure]
        ELSE [calls |-> <<Call("torch.cat", audio_chunks),
                          Call("sf.write", <<Waveform(combined)>>)>>,
              reply |-> Success(combined)]

TtsInit ==
    /\ path \in {"main", "main_simple", "generate_speech_single", "chunk_worker"}
    /\ tuples \in ListsUpTo(Waveforms, MaxTuples)
    /\ request_rate \in {1, 10}
    /\ calls = <<>>
    /\ reply = [error |-> FALSE, audio |-> <<>>]
    /\ tpc = "ready"
    /\ ChunkerIdle
    /\ FadeIdle
    /\ SynthIdle
    /\ ConcatIdle
    /\ SpliceIdle
    /\ RoundTripIdle
    /\ ServiceIdle

Served(r) ==
    /\ tpc = "ready"
    /\ calls' = r.calls
    /\ reply' = r.reply
    /\ tpc' = "done"
    /\ UNCHANGED <<path, tuples, request_rate, chunkerVars, frameVars, fadeVars, synthVars,
                   concatVars, spliceVars, roundTripVars, serviceVars>>

MainTts == path = "main" /\ Served(MainHandler(tuples, request_rate))

SimpleTts == path = "main_simple" /\ Served(SimpleHandler(tuples))

GenerateSpeechSingle == path = "generate_speech_single" /\ Served(WrapperPath(tuples))

GenerateChunkHexSync == path = "chunk_worker" /\ Served(WrapperPath(tuples))

TtsNext == MainTts \/ SimpleTts \/ GenerateSpeechSingle \/ GenerateChunkHexSync

SpecTts == TtsInit /\ [][TtsNext]_vars

----------------------------------------------------------------------------
(* main.py and main_simple.py: what POST /tts answers.  A block of the        *)
(* handler ends as [raised, status, load_calls, synth_calls]: raised is       *)
(* "none" when it returns, else the class of the exception that leaves it.    *)

available_voices ==
    {"af_heart", "af_bella", "af_nicole", "af_aoede", "af_kore", "af_sarah",
     "af_nova", "af_sky", "af_alloy", "af_jessica", "af_river", "am_michael",
     "am_fenrir", "am_puck", "am_echo", "am_eric", "am_liam", "am_onyx",
     "am_santa", "am_adam", "bf_emma", "bf_isabella", "bf_alice", "bf_lily",
     "bm_george", "bm_fable", "bm_lewis", "bm_daniel"}

\* raise HTTPException(status_code=status, ...)
HTTPException(status, loads, synths) ==
    [raised |-> "HTTPException", status |-> status, load_calls |-> loads, synth_calls |-> synths]

\* an exception of the library leaves the block
LibraryError(loads, synths) ==
    [raised |-> "Exception", status |-> 0, load_calls |-> loads, synth_calls |-> synths]

\* return StreamingResponse(...)
StreamingResponse(loads, synths) ==
    [raised |-> "none", status |-> 200, load_calls |-> loads, synth_calls |-> synths]

\* main.py, /tts: the body of the try, lines 186-239
MainTry(pl, rq, fl) ==
    IF pl = {} THEN HTTPException(500, 0, 0)
    ELSE IF rq.voice \notin available_voices THEN HTTPException(400, 0, 0)
    ELSE IF rq.lang_code \notin pl THEN HTTPException(400, 0, 0)
    ELSE IF "load_voice" \in fl THEN HTTPException(500, 1, 0)
    ELSE IF "pipeline" \in fl THEN LibraryError(1, 1)
    ELSE IF "no_audio" \in fl THEN HTTPException(500, 1, 1)
    ELSE StreamingResponse(1, 1)

\* main_simple.py, /tts: the body of the try, lines 282-374
SimpleTry(md, pl, rq, fl) ==
    IF ~md \/ pl = {} THEN HTTPException(500, 0, 0)
    ELSE IF rq.voice \notin available_voices THEN HTTPException(400, 0, 0)
    ELSE IF rq.lang_code \notin pl THEN HTTPException(400, 0, 0)
    ELSE IF "load_voice" \in fl THEN HTTPException(500, 1, 0)
    ELSE IF "pipeline" \in fl THEN HTTPException(500, 1, 1)
    ELSE IF "no_audio" \in fl THEN HTTPException(500, 1, 1)
    ELSE StreamingResponse(1, 1)

\* except Exception as e: raise HTTPException(status_code=500, ...);
\* HTTPException is a subclass of Exception
ExceptException(block) ==
    IF block.raised = "none" THEN block
    ELSE HTTPException(500, block.load_calls, block.synth_calls)

\* what the client receives
Answer(block) ==
    [status |-> block.status, load_calls |-> block.load_calls, synth_calls |-> block.synth_calls]

RequestVoices == {"af_heart", "bm_daniel", "zz_nobody"}

RequestLangCodes == {"a", "b", "z"}

Faults == SUBSET {"load_voice", "pipeline", "no_audio"}

\* the startup of either backend leaves a pipeline for each of 'a' and 'b'
\* that loaded; main_simple.py sets model before it builds any pipeline
RequestInit ==
    /\ app \in {"main", "main_simple"}
    /\ pipelines \in SUBSET {"a", "b"}
    /\ model \in BOOLEAN
    /\ (app = "main" => model)
    /\ (~model => pipelines = {})
    /\ request \in [voice : RequestVoices, lang_code : RequestLangCodes]
    /\ faults \in Faults
    /\ response = [status |-> 0, load_calls |-> 0, synth_calls |-> 0]
    /\ qpc = "ready"
    /\ ChunkerIdle
    /\ FadeIdle
    /\ SynthIdle
    /\ TtsIdle
    /\ ConcatIdle
    /\ SpliceIdle
    /\ RoundTripIdle
    /\ WrapperIdle
    /\ LoopIdle
    /\ ProgressIdle

Answered(block) ==
    /\ qpc = "ready"
    /\ response' = Answer(block)
    /\ qpc' = "done"
    /\ UNCHANGED <<app, pipelines, model, request, faults, chunkerVars, frameVars,
                   fadeVars, synthVars, ttsVars, concatVars, spliceVars, roundTripVars,
                   wrapperVars, loopVars, progressVars>>

\* main.py: generate_speech
MainGenerateSpeech ==
    app = "main" /\ Answered(ExceptException(MainTry(pipelines, request, faults)))

\* main_simple.py: generate_speech
SimpleGenerateSpeech ==
    app = "main_simple" /\ Answered(ExceptException(SimpleTry(model, pipelines, request, faults)))

RequestNext == MainGenerateSpeech \/ SimpleGenerateSpeech

SpecRequest == RequestInit /\ [][RequestNext]_vars

----------------------------------------------------------------------------
(* kokoro_wrapper.py: setup_device, initialize and the switch from CUDA to    *)
(* CPU.  None is the string "None".  A call of initialize is followed by the  *)
(* record [self, raised, reentries, failures, pipelines, loads, setups].      *)

\* the machines: what torch.cuda.is_available(), _is_cuda_arch_supported() and
\* torch.backends.mps.is_available() answer, and a torch whose probes raise
Hosts == {"cuda", "cuda_unsupported", "mps", "plain", "broken"}

CudaAvailable(h) == h \in {"cuda", "cuda_unsupported"}

ArchSupported(h) == h = "cuda"

MpsAvailable(h) == h = "mps"

\* os.environ.get('KOKORO_DEVICE', 'auto').lower()
DeviceOverrides == {"auto", "cuda", "metal", "cpu"}

\* setup_device, lines 66-110: the override, then the detection, with the
\* except of line 111
ProbeDevice(self, h, device_override) ==
    IF device_override = "cuda" /\ h = "broken" THEN [self EXCEPT !.device = "cpu"]
    ELSE IF device_override = "cuda" /\ CudaAvailable(h)
    THEN IF ArchSupported(h) THEN [self EXCEPT !.device = "cuda"]
         ELSE [self EXCEPT !.device = "cpu", !.gpu_fallback_attempted = TRUE]
    ELSE IF device_override = "metal" /\ h = "broken" THEN [self EXCEPT !.device = "cpu"]
    ELSE IF device_override = "metal" /\ MpsAvailable(h) THEN [self EXCEPT !.device = "mps"]
    ELSE IF device_override = "cpu" THEN [self EXCEPT !.device = "cpu"]
    ELSE IF h = "broken" THEN [self EXCEPT !.device = "cpu"]
    ELSE IF CudaAvailable(h)
    THEN IF ArchSupported(h) THEN [self EXCEPT !.device = "cuda"]
         ELSE [self EXCEPT !.device = "cpu", !.gpu_fallback_attempted = TRUE]
    ELSE IF MpsAvailable(h) THEN [self EXCEPT !.device = "mps"]
    ELSE [self EXCEPT !.device = "cpu"]

\* setup_device that probes the machine whatever happened before
setup_device_Forgetful(self, h, device_override) == ProbeDevice(self, h, device_override)

setup_device(self, h, device_override) ==
    IF self.gpu_fallback_attempted THEN [self EXCEPT !.device = "cpu"]
    ELSE ProbeDevice(self, h, device_override)

\* the error of attempt number n to build the pipeline: "none", "cuda" for a
\* text with one of the known_markers, "other"
ErrorAt(errors, n) == IF n <= Len(errors) THEN errors[n] ELSE "none"

\* _handle_cuda_initialization_failure: [handled, self]
handle_cuda_initialization_failure(self, error) ==
    IF self.device # "cuda" \/ self.gpu_fallback_attempted
    THEN [handled |-> FALSE, self |-> self]
    ELSE IF error = "cuda"
    THEN [handled |-> TRUE,
          self |-> [self EXCEPT !.gpu_fallback_attempted = TRUE, !.device = "cpu",
                                !.pipeline = "None", !.voice_pack = "None",
                                !.initialized = FALSE,
                                !.current_lang_code = "None", !.current_voice = "None"]]
    ELSE [handled |-> FALSE, self |-> self]

\* fallback_voice = 'af_heart' if self.lang_code == 'a' else f"{self.lang_code}f_alpha"
FallbackVoice(lang_code) ==
    IF lang_code = "a" THEN "af_heart" ELSE lang_code \o "f_alpha"

\* lines 207-225: load the voice, else the fallback voice, else leave None
LoadVoice(self, bad_voices) ==
    IF self.current_voice = self.voice THEN [self |-> self, loads |-> 0]
    ELSE IF self.voice \notin bad_voices
    THEN [self |-> [self EXCEPT !.voice_pack = self.voice, !.current_voice = self.voice],
          loads |-> 1]
    ELSE IF FallbackVoice(self.lang_code) \notin bad_voices
    THEN [self |-> [self EXCEPT !.voice_pack = FallbackVoice(self.lang_code),
                                !.voice = FallbackVoice(self.lang_code),
                                !.current_voice = FallbackVoice(self.lang_code)],
          loads |-> 2]
    ELSE [self |-> [self EXCEPT !.voice_pack = "None"], loads |-> 2]

\* what one more setup_device adds to the account of the call
WithSetup(acc, before, after) ==
    [acc EXCEPT !.setups = Append(@, [attempted |-> before.gpu_fallback_attempted,
                                      device |-> after.device])]

\* initialize, lines 115-244; n counts the attempts, acc what the call did so far
RECURSIVE Initialize(_, _, _, _, _, _)
Initialize(self0, lang_code, voice, env, n, acc) ==
    LET self1 == [self0 EXCEPT !.lang_code = IF lang_code # "None" THEN lang_code ELSE @,
                               !.voice = IF voice # "None" THEN voice ELSE @]
        need_reinit == \/ ~self1.initialized
                       \/ self1.current_lang_code # self1.lang_code
                       \/ self1.current_voice # self1.voice
        self2 == setup_device(self1, env.host, env.device_override)
        acc2 == WithSetup(acc, self1, self2)
        new_pipeline == self2.current_lang_code # self2.lang_code
        error == IF new_pipeline THEN ErrorAt(env.errors, n) ELSE "none"
        self3 == IF new_pipeline
                 THEN [self2 EXCEPT !.pipeline = self2.lang_code,
                                    !.current_lang_code = self2.lang_code]
                 ELSE self2
        loaded == LoadVoice(self3, env.bad_voices)
        handled == handle_cuda_initialization_failure(self2, error)
    IN  IF ~need_reinit
        THEN [acc EXCEPT !.self = self1]
        ELSE IF error = "none"
        THEN [acc2 EXCEPT !.self = [loaded.self EXCEPT !.initialized = TRUE],
                          !.pipelines = @ + (IF new_pipeline THEN 1 ELSE 0),
                          !.loads = @ + loaded.loads]
        ELSE IF handled.handled
        THEN Initialize(handled.self, handled.self.lang_code, handled.self.voice, env, n + 1,
                        [acc2 EXCEPT !.reentries = @ + 1, !.failures = @ + 1,
                                     !.pipelines = @ + 1])
        ELSE [acc2 EXCEPT !.self = self2, !.raised = TRUE, !.failures = @ + 1,
                          !.pipelines = @ + 1]

\* the account of a call that has done nothing yet
Entering(self) ==
    [self |-> self, raised |-> FALSE, reentries |-> 0, failures |-> 0, pipelines |-> 0,
     loads |-> 0, setups |-> <<>>]

LangCodes == {"a", "b"}

Voices == {"af_heart", "bf_emma"}

\* the errors of the first and of the second attempt to build the pipeline
PipelineErrors ==
    {<<"none">>, <<"other">>, <<"cuda", "none">>, <<"cuda", "other">>, <<"cuda", "cuda">>}

\* the voices whose load_voice raises during a call
BadVoices == {{}, {"bf_emma"}, {"af_heart"}, {"af_heart", "bf_emma", "bf_alpha"}}

\* the wrapper is initialized with its lang_code and voice and is asked for them
SameAgain(self, lang_code, voice) ==
    /\ self.initialized
    /\ self.current_lang_code = self.lang_code
    /\ self.current_voice = self.voice
    /\ lang_code \in {"None", self.lang_code}
    /\ voice \in {"None", self.voice}

WrapperInit ==
    /\ service = NewWrapper
    /\ host \in Hosts
    /\ init_call = NoCall
    /\ fallbacks = 0
    /\ ChunkerIdle
    /\ FadeIdle
    /\ SynthIdle
    /\ TtsIdle
    /\ ConcatIdle
    /\ SpliceIdle
    /\ RoundTripIdle
    /\ RequestIdle
    /\ LoopIdle
    /\ ProgressIdle

\* await service.initialize(lang_code=..., voice=...)
CallInitialize ==
    /\ init_call.n < MaxCalls
    /\ \E lang_code \in LangCodes \cup {"None"}, voice \in Voices \cup {"None"},
          device_override \in DeviceOverrides, errors \in PipelineErrors,
          bad_voices \in BadVoices :
           LET env == [host |-> host, device_override |-> device_override,
                       errors |-> errors, bad_voices |-> bad_voices]
               done == Initialize(service, lang_code, voice, env, 1, Entering(service))
           IN  /\ service' = done.self
               /\ init_call' = [n |-> init_call.n + 1,
                                same_again |-> SameAgain(service, lang_code, voice),
                                attempted |-> service.gpu_fallback_attempted,
                                unchanged |-> done.self = service,
                                raised |-> done.raised, reentries |-> done.reentries,
                                failures |-> done.failures, pipelines |-> done.pipelines,
                                loads |-> done.loads, setups |-> done.setups]
               /\ fallbacks' = fallbacks + done.reentries
    /\ UNCHANGED <<host, chunkerVars, frameVars, fadeVars, synthVars, ttsVars,
                   concatVars, spliceVars, roundTripVars, requestVars, loopVars,
                   progressVars>>

WrapperNext == CallInitialize

SpecWrapper == WrapperInit /\ [][WrapperNext]_vars

----------------------------------------------------------------------------
(* kokoro_wrapper.py: main, the loop over the lines of stdin.  KOKORO_DEVICE  *)
(* is not set.  One iteration ends as [self, reentries, printed, next]:       *)
(* printed are the lines it wrote to stdout, next is "loop" or "ended".       *)

\* readline() at end of input
Eof == [kind |-> "eof"]

\* a line that json.loads rejects
InvalidJson == [kind |-> "invalid_json"]

\* a line that is JSON, but not an object: request.get raises
NotAnObject == [kind |-> "not_object"]

\* request.get('lang_code', 'a'), request.get('voice', 'af_heart'), the text
\* ("empty", "short" or "long", longer than MAX_CHUNK_CHAR_SIZE) and whether
\* float() accepts request.get('speed', 1.0)
Requests ==
    [kind : {"request"}, lang_code : LangCodes, voice : Voices,
     text : {"empty", "short", "long"}, speed_ok : BOOLEAN]

Lines == {Eof, BlankLine, InvalidJson, NotAnObject} \cup Requests

\* what the library does while one line is served
LoopEnvs ==
    [errors : {<<"none">>, <<"other">>, <<"cuda", "none">>},
     bad_voices : {{}, {"af_heart", "bf_emma", "bf_alpha"}},
     synthesis_raises : BOOLEAN]

EnvOf(h, e) ==
    [host |-> h, device_override |-> "auto", errors |-> e.errors, bad_voices |-> e.bad_voices]

\* print(json.dumps(...)) of lines 560-570, 573-577 and 581-585
SuccessLine(n) == [line |-> n, success |-> TRUE, error |-> ""]

InvalidJsonLine(n) == [line |-> n, success |-> FALSE, error |-> "Invalid JSON format"]

ErrorLine(n) == [line |-> n, success |-> FALSE, error |-> "str(e)"]

\* generate_speech, lines 246-261: a wrapper that is not initialized is
\* initialized first (lines 248-249), an empty text raises ValueError (251-252)
\* and the synthesis of lines 257-261 returns or raises as the library does
generate_speech(self, txt, env, synthesis_raises) ==
    LET init == IF self.initialized THEN Entering(self)
                ELSE Initialize(self, "None", "None", env, 1, Entering(self))
    IN  [self |-> init.self,
         reentries |-> init.reentries,
         raised |-> init.raised \/ txt = "empty" \/ synthesis_raises]

\* an iteration that prints nothing for invalid JSON
Iteration_SilentOnInvalidJson(self, ln, n, h, e) ==
    LET init == Initialize(self, ln.lang_code, ln.voice, EnvOf(h, e), 1, Entering(self))
        speech == generate_speech(init.self, ln.text, EnvOf(h, e), e.synthesis_raises)
    IN  IF ln = Eof
        THEN [self |-> self, reentries |-> 0, printed |-> <<>>, next |-> "ended"]
        ELSE IF ln = BlankLine
        THEN [self |-> self, reentries |-> 0, printed |-> <<>>, next |-> "loop"]
        ELSE IF ln = InvalidJson
        THEN [self |-> self, reentries |-> 0, printed |-> <<>>, next |-> "loop"]
        ELSE IF ln = NotAnObject
        THEN [self |-> self, reentries |-> 0, printed |-> <<ErrorLine(n)>>, next |-> "loop"]
        ELSE IF init.raised \/ ~ln.speed_ok
        THEN [self |-> init.self, reentries |-> init.reentries,
              printed |-> <<ErrorLine(n)>>, next |-> "loop"]
        ELSE [self |-> speech.self, reentries |-> init.reentries + speech.reentries,
              printed |-> <<IF speech.raised THEN ErrorLine(n) ELSE SuccessLine(n)>>,
              next |-> "loop"]

\* one pass of the while True of lines 531-586 over the line ln, the n-th
\* non-blank line
Iteration(self, ln, n, h, e) ==
    LET init == Initialize(self, ln.lang_code, ln.voice, EnvOf(h, e), 1, Entering(self))
        speech == generate_speech(init.self, ln.text, EnvOf(h, e), e.synthesis_raises)
    IN  IF ln = Eof
        THEN [self |-> self, reentries |-> 0, printed |-> <<>>, next |-> "ended"]
        ELSE IF ln = BlankLine
        THEN [self |-> self, reentries |-> 0, printed |-> <<>>, next |-> "loop"]
        ELSE IF ln = InvalidJson
        THEN [self |-> self, reentries |-> 0, printed |-> <<InvalidJsonLine(n)>>,
              next |-> "loop"]
        ELSE IF ln = NotAnObject
        THEN [self |-> self, reentries |-> 0, printed |-> <<ErrorLine(n)>>, next |-> "loop"]
        ELSE IF init.raised \/ ~ln.speed_ok
        THEN [self |-> init.self, reentries |-> init.reentries,
              printed |-> <<ErrorLine(n)>>, next |-> "loop"]
        ELSE [self |-> speech.self, reentries |-> init.reentries + speech.reentries,
              printed |-> <<IF speech.raised THEN ErrorLine(n) ELSE SuccessLine(n)>>,
              next |-> "loop"]

LoopInit ==
    /\ service = NewWrapper
    /\ host \in Hosts
    /\ init_call = NoCall
    /\ fallbacks = 0
    /\ line = BlankLine
    /\ nread = 0
    /\ stdout = <<>>
    /\ lpc = "startup"
    /\ ChunkerIdle
    /\ FadeIdle
    /\ SynthIdle
    /\ TtsIdle
    /\ ConcatIdle
    /\ SpliceIdle
    /\ RoundTripIdle
    /\ RequestIdle
    /\ ProgressIdle

\* service = KokoroTTSWrapper(); await service.initialize(), with the
\* sys.exit(1) of line 591
Startup ==
    /\ lpc = "startup"
    /\ \E e \in LoopEnvs :
          LET init == Initialize(service, "None", "None", EnvOf(host, e), 1, Entering(service))
          IN  /\ service' = init.self
              /\ fallbacks' = fallbacks + init.reentries
              /\ lpc' = IF init.raised THEN "exit" ELSE "loop"
    /\ UNCHANGED <<host, init_call, line, nread, stdout, chunkerVars, frameVars, fadeVars,
                   synthVars, ttsVars, concatVars, spliceVars, roundTripVars, requestVars,
                   progressVars>>

IsBlankOrEof(ln) == ln \in {Eof, BlankLine}

\* one line is read and served
ServeLine ==
    /\ lpc = "loop"
    /\ \E ln \in Lines, e \in LoopEnvs :
          LET n == IF IsBlankOrEof(ln) THEN nread ELSE nread + 1
              done == Iteration(service, ln, n, host, e)
          IN  /\ n <= MaxLines
              /\ line' = ln
              /\ nread' = n
              /\ service' = done.self
              /\ fallbacks' = fallbacks + done.reentries
              /\ stdout' = stdout \o done.printed
              /\ lpc' = done.next
    /\ UNCHANGED <<host, init_call, chunkerVars, frameVars, fadeVars,
                   synthVars, ttsVars, concatVars, spliceVars, roundTripVars, requestVars,
                   progressVars>>

LoopNext == Startup \/ ServeLine

SpecLoop == LoopInit /\ [][LoopNext]_vars

----------------------------------------------------------------------------
(* main_simple.py: the progress map, its lock and the generator of            *)
(* progress_stream.  Everything runs on the event-loop thread: a task runs    *)
(* from one suspension point to the next, and the /tts handler has no await.  *)

\* if current_time - data['timestamp'] > 300
EvictAfter == 300

\* the seconds between two looks at the clock
TickSeconds == 200

RequestIds == 1..MaxRequests

Absent == [present |-> FALSE, progress |-> 0, timestamp |-> 0]

\* lines 252-256: the entries older than five minutes are deleted
CleanUp(data, current_time) ==
    [rid \in DOMAIN data |->
        IF data[rid].present /\ current_time - data[rid].timestamp > EvictAfter
        THEN Absent ELSE data[rid]]

\* the while True of lines 243-261 from its top to the next suspension
LoopTop(g) ==
    IF progress_data[g.request_id].present
    THEN IF progress_data[g.request_id].progress # g.last_progress
         THEN /\ gen' = [g EXCEPT !.pc = "yield_data",
                                  !.last_progress = progress_data[g.request_id].progress]
              /\ progress_lock' = "stream"
              /\ event' = "data"
              /\ UNCHANGED progress_data
         ELSE /\ gen' = [g EXCEPT !.pc = "sleep"]
              /\ progress_data' = CleanUp(progress_data, now)
              /\ UNCHANGED <<progress_lock, event>>
    ELSE /\ gen' = [g EXCEPT !.pc = "yield_waiting"]
         /\ progress_lock' = "stream"
         /\ event' = "waiting"
         /\ UNCHANGED progress_data

ProgressInit ==
    /\ issued = 0
    /\ progress_data = [rid \in RequestIds |-> Absent]
    /\ progress_lock = "free"
    /\ gen \in [request_id : RequestIds, pc : {"start"}, last_progress : {-1}]
    /\ loop_thread = "idle"
    /\ now = 0
    /\ event = "none"
    /\ ChunkerIdle
    /\ FadeIdle
    /\ SynthIdle
    /\ TtsIdle
    /\ ConcatIdle
    /\ SpliceIdle
    /\ RoundTripIdle
    /\ RequestIdle
    /\ WrapperIdle
    /\ LoopIdle

ProgressFrame ==
    UNCHANGED <<chunkerVars, frameVars, fadeVars, synthVars, ttsVars, concatVars,
                spliceVars, roundTripVars, requestVars, wrapperVars, loopVars>>

\* the event loop resumes the generator, which runs to its next yield or await
GenResume ==
    /\ loop_thread = "idle"
    /\ gen.pc \in {"start", "yield_data", "yield_waiting", "sleep", "yield_completed"}
    /\ IF gen.pc = "start" THEN LoopTop(gen)
       ELSE IF gen.pc = "yield_data"
       THEN /\ progress_data' = CleanUp(progress_data, now)
            /\ progress_lock' = "free"
            /\ gen' = [gen EXCEPT !.pc = "sleep"]
            /\ UNCHANGED event
       ELSE IF gen.pc = "yield_waiting"
       THEN /\ progress_lock' = "free"
            /\ gen' = [gen EXCEPT !.pc = "sleep"]
            /\ UNCHANGED <<progress_data, event>>
       ELSE IF gen.pc = "sleep"
       THEN IF gen.last_progress = 100
            THEN /\ gen' = [gen EXCEPT !.pc = "yield_completed"]
                 /\ event' = "completed"
                 /\ UNCHANGED <<progress_data, progress_lock>>
            ELSE LoopTop(gen)
       ELSE /\ gen' = [gen EXCEPT !.pc = "finished"]
            /\ UNCHANGED <<progress_data, progress_lock, event>>
    /\ UNCHANGED <<issued, loop_thread, now>>
    /\ ProgressFrame

\* the client goes away: the generator is closed at its suspension point and
\* the with block, if it is inside one, releases the lock
GenClose ==
    /\ loop_thread = "idle"
    /\ gen.pc \in {"yield_data", "yield_waiting", "sleep", "yield_completed"}
    /\ gen' = [gen EXCEPT !.pc = "finished"]
    /\ progress_lock' = "free"
    /\ UNCHANGED <<issued, progress_data, loop_thread, now, event>>
    /\ ProgressFrame

\* POST /tts: request_id = str(uuid.uuid4()) is an id no request had before,
\* here the next number; the handler runs without an await from its first to
\* its last update_progress, each of them inside "with progress_lock"
ServeTts ==
    /\ loop_thread = "idle"
    /\ issued < MaxRequests
    /\ issued' = issued + 1
    /\ \E final \in {0, 100} :
          IF progress_lock = "free"
          THEN /\ progress_data' = [progress_data EXCEPT
                                       ![issued + 1] = [present |-> TRUE, progress |-> final,
                                                        timestamp |-> now]]
               /\ UNCHANGED loop_thread
          ELSE /\ loop_thread' = "blocked"
               /\ UNCHANGED progress_data
    /\ UNCHANGED <<progress_lock, gen, now, event>>
    /\ ProgressFrame

\* time passes
Tick ==
    /\ now < MaxTicks * TickSeconds
    /\ now' = now + TickSeconds
    /\ UNCHANGED <<issued, progress_data, progress_lock, gen, loop_thread, event>>
    /\ ProgressFrame

ProgressNext == GenResume \/ GenClose \/ ServeTts \/ Tick

SpecProgress == ProgressInit /\ [][ProgressNext]_vars

----------------------------------------------------------------------------
(* kokoro_wrapper.py: bytes, hex strings and the WAV header *)

RIFF == <<82, 73, 70, 70>>

WAVE == <<87, 65, 86, 69>>

FMT == <<102, 109, 116, 32>>

DATA == <<100, 97, 116, 97>>

HexDigits == <<"0", "1", "2", "3", "4", "5", "6", "7", "8", "9", "a", "b", "c", "d", "e", "f">>

HexValue(d) ==
    CASE d = "0" -> 0 [] d = "1" -> 1 [] d = "2" -> 2 [] d = "3" -> 3
      [] d = "4" -> 4 [] d = "5" -> 5 [] d = "6" -> 6 [] d = "7" -> 7
      [] d = "8" -> 8 [] d = "9" -> 9 [] d = "a" -> 10 [] d = "b" -> 11
      [] d = "c" -> 12 [] d = "d" -> 13 [] d = "e" -> 14 [] d = "f" -> 15

\* bytes.hex()
RECURSIVE Hex(_)
Hex(b) ==
    IF b = <<>> THEN <<>>
    ELSE <<HexDigits[(Head(b) \div 16) + 1], HexDigits[(Head(b) % 16) + 1]>> \o Hex(Tail(b))

\* bytes.fromhex(), on a string of hex digit pairs
RECURSIVE FromHex(_)
FromHex(h) ==
    IF Len(h) < 2 THEN <<>>
    ELSE <<16 * HexValue(h[1]) + HexValue(h[2])>> \o FromHex(From(h, 2))

\* struct.pack('<H', n)
LE16(n) == <<n % 256, (n \div 256) % 256>>

\* struct.pack('<I', n)
LE32(n) == <<n % 256, (n \div 256) % 256, (n \div 65536) % 256, (n \div 16777216) % 256>>

\* struct.unpack('<H', b[off:off + 2])
U16At(b, off) == b[off + 1] + 256 * b[off + 2]

\* struct.unpack('<I', b[off:off + 4])
U32At(b, off) == b[off + 1] + 256 * b[off + 2] + 65536 * b[off + 3] + 16777216 * b[off + 4]

\* bytes.find(pat): the 0-based position of the first occurrence, or -1
RECURSIVE FindFrom(_, _, _)
FindFrom(b, pat, pos) ==
    IF pos + Len(pat) > Len(b) THEN -1
    ELSE IF SubSeq(b, pos + 1, pos + Len(pat)) = pat THEN pos
         ELSE FindFrom(b, pat, pos + 1)

Find(b, pat) == FindFrom(b, pat, 0)

WavSampleRate == 24000

NumChannels == 1

BitsPerSample == 16

\* riff_size = 36 + data_size
RiffSize_WholeFile(data_size) == 44 + data_size

RiffSize(data_size) == 36 + data_size

\* struct.pack('<4sI4s4sIHHIIHH4sI', ...)
WavHeader(rate, num_channels, bits_per_sample, data_size) ==
    LET byte_rate == (rate * num_channels * bits_per_sample) \div 8
        block_align == (num_channels * bits_per_sample) \div 8
    IN  RIFF \o LE32(RiffSize(data_size)) \o WAVE
        \o FMT \o LE32(16) \o LE16(1) \o LE16(num_channels) \o LE32(rate)
        \o LE32(byte_rate) \o LE16(block_align) \o LE16(bits_per_sample)
        \o DATA \o LE32(data_size)

\* 16-bit little-endian PCM of a buffer of int16 samples
RECURSIVE Pcm16(_)
Pcm16(samples) ==
    IF samples = <<>> THEN <<>>
    ELSE LE16(Head(samples) % 65536) \o Pcm16(Tail(samples))

\* sf.write(buffer, combined.numpy(), 24000, format='WAV'); buffer.getvalue()
SfWrite(samples) ==
    WavHeader(WavSampleRate, NumChannels, BitsPerSample, 2 * Len(samples)) \o Pcm16(samples)

----------------------------------------------------------------------------
(* kokoro_wrapper.py: the splice of generate_speech_chunked *)

\* ExtractAudio that takes a RIFF buffer without a 'data' marker as raw audio
ExtractAudio_KeepsUnmarked(chunk_bytes) ==
    LET data_pos == Find(chunk_bytes, DATA)
        data_start == data_pos + 8
    IN  IF StartsWith(chunk_bytes, RIFF) /\ data_pos # -1
        THEN IF data_start >= Len(chunk_bytes)
             THEN [kept |-> FALSE, msg |-> "invalid data position", audio_data |-> <<>>]
             ELSE [kept |-> TRUE, msg |-> "processed",
                   audio_data |-> From(chunk_bytes, data_start)]
        ELSE [kept |-> TRUE, msg |-> "processed", audio_data |-> chunk_bytes]

\* the body of "for result in sorted(...)": what one chunk contributes
ExtractAudio(chunk_bytes) ==
    LET data_pos == Find(chunk_bytes, DATA)
        data_start == data_pos + 8
    IN  IF StartsWith(chunk_bytes, RIFF)
        THEN IF data_pos = -1
             THEN [kept |-> FALSE, msg |-> "no data chunk", audio_data |-> <<>>]
             ELSE IF data_start >= Len(chunk_bytes)
                  THEN [kept |-> FALSE, msg |-> "invalid data position", audio_data |-> <<>>]
                  ELSE [kept |-> TRUE, msg |-> "processed",
                        audio_data |-> From(chunk_bytes, data_start)]
        ELSE [kept |-> TRUE, msg |-> "processed", audio_data |-> chunk_bytes]

\* the loop over the ordered results: audio_chunks and the lines it prints
RECURSIVE SpliceLoop(_, _, _)
SpliceLoop(ordered, audio_chunks, printed) ==
    IF ordered = <<>> THEN [audio_chunks |-> audio_chunks, printed |-> printed]
    ELSE LET idx == Head(ordered)[1]
             x == ExtractAudio(FromHex(Head(ordered)[2]))
         IN  SpliceLoop(Tail(ordered),
                        IF x.kept THEN Append(audio_chunks, x.audio_data) ELSE audio_chunks,
                        Append(printed, [msg |-> x.msg, idx |-> idx]))

\* the combined data left as it is
PadToSample_Never(combined) == combined

\* if len(combined_audio_data) % 2 != 0: combined_audio_data += b'\x00'
PadToSample(combined) == IF Len(combined) % 2 # 0 THEN Append(combined, 0) ELSE combined

\* wav_header + combined_audio_data, as a hex string
CompleteWav(audio_chunks) ==
    LET combined_audio_data == PadToSample(Concat(audio_chunks))
    IN  Hex(WavHeader(WavSampleRate, NumChannels, BitsPerSample, Len(combined_audio_data))
            \o combined_audio_data)

\* a list of (idx, hex) sorted by idx
RECURSIVE SortedByIdx(_)
SortedByIdx(rs) ==
    IF rs = <<>> THEN <<>>
    ELSE LET least == CHOOSE k \in DOMAIN rs : \A j \in DOMAIN rs : rs[k][1] <= rs[j][1]
         IN  <<rs[least]>> \o SortedByIdx([j \in 1..(Len(rs) - 1) |->
                                              IF j < least THEN rs[j] ELSE rs[j + 1]])

----------------------------------------------------------------------------
(* The splice on its own: lines 311-389 applied to given per-chunk buffers *)

\* payload bytes; the first four spell "data"
PcmPattern == <<100, 97, 116, 97, 1, 0, 2, 3>>

Payloads == {SubSeq(PcmPattern, 1, n) : n \in 0..MaxPayload}

LIST == <<76, 73, 83, 84>>

\* a RIFF subchunk: tag, size, body, and a pad byte after a body of odd length
Subchunk(tag, body) ==
    tag \o LE32(Len(body)) \o body \o (IF Len(body) % 2 = 1 THEN <<0>> ELSE <<>>)

FmtSubchunk ==
    Subchunk(FMT, LE16(1) \o LE16(NumChannels) \o LE32(WavSampleRate) \o LE32(48000)
                  \o LE16(2) \o LE16(BitsPerSample))

ListSubchunk == Subchunk(LIST, <<9, 9>>)

Riff(body) == RIFF \o LE32(4 + Len(body)) \o WAVE \o body

\* well-formed containers: the data subchunk alone, after a LIST subchunk,
\* or followed by one
WavOf(pre, payload, post) == Riff(FmtSubchunk \o pre \o Subchunk(DATA, payload) \o post)

WellFormedWavs ==
    {WavOf(<<>>, q, <<>>) : q \in Payloads}
        \cup {WavOf(ListSubchunk, q, <<>>) : q \in Payloads}
        \cup {WavOf(<<>>, q, ListSubchunk) : q \in Payloads}

\* RIFF buffers without a data subchunk, and with a 'data' tag cut off at the end
NoDataWav == Riff(FmtSubchunk)

TruncatedWav == Riff(FmtSubchunk \o DATA)

ChunkBuffers == Payloads \cup WellFormedWavs \cup {NoDataWav, TruncatedWav}

SpliceInit ==
    /\ chunk_buffers \in ListsUpTo(ChunkBuffers, MaxResults)
    /\ assembled = [failed |-> FALSE, pcm |-> <<>>, hex |-> <<>>, printed |-> <<>>]
    /\ apc = "ready"
    /\ ChunkerIdle
    /\ FadeIdle
    /\ SynthIdle
    /\ TtsIdle
    /\ ConcatIdle
    /\ RoundTripIdle
    /\ ServiceIdle

\* lines 311-389 on the results (idx, hex) of the chunks
CallSplice ==
    /\ apc = "ready"
    /\ LET results == [k \in DOMAIN chunk_buffers |-> <<k - 1, Hex(chunk_buffers[k])>>]
           loop == SpliceLoop(SortedByIdx(results), <<>>, <<>>)
       IN  assembled' =
               IF loop.audio_chunks = <<>>
               THEN [failed |-> TRUE, pcm |-> <<>>, hex |-> <<>>, printed |-> loop.printed]
               ELSE [failed |-> FALSE,
                     pcm |-> PadToSample(Concat(loop.audio_chunks)),
                     hex |-> CompleteWav(loop.audio_chunks),
                     printed |-> loop.printed]
    /\ apc' = "done"
    /\ UNCHANGED <<chunk_buffers, chunkerVars, frameVars, fadeVars, synthVars,
                   ttsVars, concatVars, roundTripVars, serviceVars>>

SpliceNext == CallSplice

SpecSplice == SpliceInit /\ [][SpliceNext]_vars

----------------------------------------------------------------------------
(* Framing and re-parsing: lines 348-389 on a payload of zero bytes, then    *)
(* the extraction of lines 318-331 on the container that was built.  The    *)
(* payload is kept as its length, so that long payloads can be framed.      *)

\* the length whose riff_size, 36 more, is packed as the bytes "data"
MarkerSize == 1635017024

PcmLengths == {2 * k : k \in 1..MaxPairs} \cup {MarkerSize}

\* lines 319-331 on header followed by n zero bytes: no marker starts inside
\* or across the zero bytes, so find() looks at the header alone
ExtractFramed(header, n) ==
    LET data_pos == Find(header, DATA)
        data_start == data_pos + 8
    IN  IF StartsWith(header, RIFF)
        THEN IF data_pos = -1
             THEN [kept |-> FALSE, audio_data |-> Silence(<<>>, 0)]
             ELSE IF data_start >= Len(header) + n
                  THEN [kept |-> FALSE, audio_data |-> Silence(<<>>, 0)]
                  ELSE [kept |-> TRUE, audio_data |-> Silence(From(header, data_start), n)]
        ELSE [kept |-> TRUE, audio_data |-> Silence(header, n)]

RoundTripInit ==
    /\ pcm_len \in PcmLengths
    /\ framed = [header |-> <<>>, rate |-> 0, channels |-> 0, bits |-> 0,
                 kept |-> FALSE, payload |-> Silence(<<>>, 0)]
    /\ rpc = "ready"
    /\ ChunkerIdle
    /\ FadeIdle
    /\ SynthIdle
    /\ TtsIdle
    /\ ConcatIdle
    /\ SpliceIdle
    /\ ServiceIdle

\* the header is packed around the payload and the container is read back
FrameAndReparse ==
    /\ rpc = "ready"
    /\ LET wav_header == WavHeader(WavSampleRate, NumChannels, BitsPerSample, pcm_len)
           extracted == ExtractFramed(wav_header, pcm_len)
       IN  framed' = [header |-> wav_header,
                      rate |-> U32At(wav_header, 24),
                      channels |-> U16At(wav_header, 22),
                      bits |-> U16At(wav_header, 34),
                      kept |-> extracted.kept,
                      payload |-> extracted.audio_data]
    /\ rpc' = "done"
    /\ UNCHANGED <<pcm_len, chunkerVars, frameVars, fadeVars, synthVars,
                   ttsVars, concatVars, spliceVars, serviceVars>>

RoundTripNext == FrameAndReparse

SpecRoundTrip == RoundTripInit /\ [][RoundTripNext]_vars

----------------------------------------------------------------------------
(* kokoro_wrapper.py: generate_speech_chunked, its workers and threads *)

Indexes == 0..(total - 1)

EnvValues ==
    { [kind |-> "unset", n |-> 0], [kind |-> "unparsable", n |-> 0],
      [kind |-> "int", n |-> 0], [kind |-> "int", n |-> 3] }

\* the value of the variable taken without the max(1, ...)
Concurrency_Unclamped(env) ==
    IF env.kind = "int" THEN env.n ELSE 2

\* max(1, int(os.environ.get('KOKORO_TTS_MAX_CONCURRENCY', '2'))), 2 on an exception
Concurrency(env) ==
    IF env.kind = "int" THEN (IF env.n >= 1 THEN env.n ELSE 1) ELSE 2

\* the samples the pipeline gives for chunk idx: every sample carries idx + 1
AudioOf(idx, n) == [k \in 1..n |-> idx + 1]

\* results = await asyncio.gather(*tasks, return_exceptions=True), in completion order
CollectResults_AsCompleted ==
    LET done == SelectSeq(finished, LAMBDA i : ~outcome[i].exc)
    IN  [k \in 1..Len(done) |-> <<done[k], outcome[done[k]].hex>>]

\* results = await asyncio.gather(*tasks, return_exceptions=True);
\* sorted([r for r in results if not isinstance(r, Exception)], key=lambda x: x[0])
CollectResults ==
    LET results == [k \in 1..total |-> outcome[k - 1]]
        idxs == SelectSeq([k \in 1..total |-> k - 1], LAMBDA i : ~results[i + 1].exc)
    IN  SortedByIdx([k \in 1..Len(idxs) |-> <<idxs[k], results[idxs[k] + 1].hex>>])

SynthInit ==
    /\ total \in 0..MaxChunks
    /\ env_concurrency \in EnvValues
    /\ max_concurrency = 0
    /\ sem = 0
    /\ waiters = <<>>
    /\ woken = {}
    /\ wstate = [i \in Indexes |-> "created"]
    /\ outcome = [i \in Indexes |-> [exc |-> FALSE, hex |-> <<>>]]
    /\ finished = <<>>
    /\ log = <<>>
    /\ output = <<>>
    /\ gpc = "start"
    /\ ChunkerIdle
    /\ FadeIdle
    /\ AssemblyIdle

\* the semaphore is created and the tasks are handed to gather
Dispatch ==
    /\ gpc = "start"
    /\ max_concurrency' = Concurrency(env_concurrency)
    /\ sem' = Concurrency(env_concurrency)
    /\ gpc' = "gather"
    /\ UNCHANGED <<total, env_concurrency, waiters, woken, wstate, outcome, finished, log,
                   output, chunkerVars, frameVars, fadeVars, assemblyVars>>

\* worker(idx) runs up to its first suspension: it takes a slot and hands the
\* chunk to a thread, or queues on the semaphore; tasks start in list order
WorkerStart(i) ==
    /\ gpc = "gather"
    /\ wstate[i] = "created"
    /\ \A j \in Indexes : j < i => wstate[j] # "created"
    /\ log' = Append(log, [msg |-> "starting", idx |-> i])
    /\ IF sem > 0 /\ waiters = <<>>
       THEN /\ sem' = sem - 1
            /\ wstate' = [wstate EXCEPT ![i] = "submitted"]
            /\ waiters' = waiters
       ELSE /\ waiters' = Append(waiters, i)
            /\ wstate' = [wstate EXCEPT ![i] = "waiting"]
            /\ sem' = sem
    /\ UNCHANGED <<total, env_concurrency, max_concurrency, woken, outcome, finished, output,
                   gpc, chunkerVars, frameVars, fadeVars, assemblyVars>>

\* the pool thread of chunk i calls self.pipeline(...)
ThreadEnter(i) ==
    /\ gpc = "gather"
    /\ wstate[i] = "submitted"
    /\ wstate' = [wstate EXCEPT ![i] = "pipeline"]
    /\ UNCHANGED <<total, env_concurrency, max_concurrency, sem, waiters, woken, outcome,
                   finished, log, output, gpc, chunkerVars, frameVars, fadeVars, assemblyVars>>

\* the thread leaves the pipeline: no audio raises, otherwise the WAV file in hex
ThreadLeave(i) ==
    /\ gpc = "gather"
    /\ wstate[i] = "pipeline"
    /\ \/ outcome' = [outcome EXCEPT ![i] = [exc |-> TRUE, hex |-> <<>>]]
       \/ \E n \in 0..MaxSamples :
            outcome' = [outcome EXCEPT ![i] = [exc |-> FALSE, hex |-> Hex(SfWrite(AudioOf(i, n)))]]
    /\ wstate' = [wstate EXCEPT ![i] = "threaddone"]
    /\ UNCHANGED <<total, env_concurrency, max_concurrency, sem, waiters, woken, finished,
                   log, output, gpc, chunkerVars, frameVars, fadeVars, assemblyVars>>

\* Semaphore._wake_up_next with the counter at value: the oldest waiter whose
\* future has no result yet gets one and the counter goes down by one
WakeUpNext(value, queue, done) ==
    LET pending == {k \in 1..Len(queue) : queue[k] \notin done}
    IN  IF pending = {} THEN [value |-> value, woken |-> done]
        ELSE [value |-> value - 1,
              woken |-> done \cup {queue[CHOOSE k \in pending : \A m \in pending : k <= m]}]

\* the event loop resumes worker i once every task has had its first turn:
\* 'async with sem' releases the slot, which resolves the future of the oldest
\* waiter, and the task is complete; the waiter itself has not run yet
WorkerExit(i) ==
    /\ gpc = "gather"
    /\ wstate[i] = "threaddone"
    /\ \A j \in Indexes : wstate[j] # "created"
    /\ finished' = Append(finished, i)
    /\ wstate' = [wstate EXCEPT ![i] = "done"]
    /\ LET released == WakeUpNext(sem + 1, waiters, woken)
       IN  /\ sem' = released.value
           /\ woken' = released.woken
    /\ UNCHANGED <<total, env_concurrency, max_concurrency, waiters, outcome, log, output, gpc,
                   chunkerVars, frameVars, fadeVars, assemblyVars>>

\* the event loop resumes the waiter i whose future has its result, the one
\* woken first: it leaves Semaphore.acquire (out of the queue, and a free slot
\* goes to the next waiter) and hands its chunk to a thread
WorkerResume(i) ==
    /\ gpc = "gather"
    /\ waiters # <<>>
    /\ i = Head(waiters)
    /\ i \in woken
    /\ waiters' = Tail(waiters)
    /\ LET passed == IF sem > 0 THEN WakeUpNext(sem, Tail(waiters), woken \ {i})
                     ELSE [value |-> sem, woken |-> woken \ {i}]
       IN  /\ sem' = passed.value
           /\ woken' = passed.woken
    /\ wstate' = [wstate EXCEPT ![i] = "submitted"]
    /\ UNCHANGED <<total, env_concurrency, max_concurrency, outcome, finished, log, output, gpc,
                   chunkerVars, frameVars, fadeVars, assemblyVars>>

\* gather has every result: the splice, the header, the return or the raise
Assemble ==
    /\ gpc = "gather"
    /\ \A j \in Indexes : wstate[j] = "done"
    /\ LET spliced == SpliceLoop(CollectResults, <<>>, <<>>)
       IN  /\ log' = log \o spliced.printed
           /\ IF spliced.audio_chunks = <<>>
              THEN /\ gpc' = "failed"
                   /\ output' = output
              ELSE /\ gpc' = "returned"
                   /\ output' = CompleteWav(spliced.audio_chunks)
    /\ UNCHANGED <<total, env_concurrency, max_concurrency, sem, waiters, woken, wstate,
                   outcome, finished, chunkerVars, frameVars, fadeVars, assemblyVars>>

SynthNext ==
    \/ Dispatch
    \/ \E i \in Indexes : WorkerStart(i)
    \/ \E i \in Indexes : ThreadEnter(i)
    \/ \E i \in Indexes : ThreadLeave(i)
    \/ \E i \in Indexes : WorkerExit(i)
    \/ \E i \in Indexes : WorkerResume(i)
    \/ Assemble

SpecSynth == SynthInit /\ [][SynthNext]_vars

\* a step of the semaphore, a worker or a pool thread
WorkerStep ==
    \/ Dispatch
    \/ \E i \in Indexes : WorkerStart(i)
    \/ \E i \in Indexes : ThreadEnter(i)
    \/ \E i \in Indexes : ThreadLeave(i)
    \/ \E i \in Indexes : WorkerExit(i)
    \/ \E i \in Indexes : WorkerResume(i)

\* the event loop runs a task that is ready, the pool runs a thread it was
\* handed, and a call into the pipeline returns or raises: some step is taken
\* as long as one is possible
SynthFairness == WF_vars(WorkerStep)

SpecSynthFair == SynthInit /\ [][SynthNext]_vars /\ SynthFairness

----------------------------------------------------------------------------
(* Properties of the segmenter *)

NonSpace(s) == SelectSeq(s, LAMBDA c : ~IsSpace(c))

\* C1: every returned chunk has at most max_chunk_size characters
C1_ChunkWithinLimit ==
    cpc = "done" => \A k \in DOMAIN chunks : Len(chunks[k]) <= max_chunk_size

\* a token longer than the limit is met with a non-empty token buffer and is cut
C1_Witness ==
    /\ cpc = "done"
    /\ Len(FindTokens(text)) = 2
    /\ Len(FindTokens(text)[1]) <= max_chunk_size
    /\ Len(Strip(FindTokens(text)[2])) > max_chunk_size
    /\ Len(chunks) >= 3

\* the non-whitespace characters of the input, each marked as droppable when it
\* is the comma of a comma-space separator
Marked(t) ==
    LET idx == SelectSeq([k \in 1..Len(t) |-> k], LAMBDA k : ~IsSpace(t[k]))
    IN  [n \in 1..Len(idx) |->
            [c |-> t[idx[n]],
             sep |-> t[idx[n]] = Comma /\ idx[n] < Len(t) /\ t[idx[n] + 1] = Space]]

\* out is obtained from inp by deleting separator characters only
RECURSIVE KeepsAllButSeparators(_, _)
KeepsAllButSeparators(inp, out) ==
    IF inp = <<>> THEN out = <<>>
    ELSE \/ /\ out # <<>>
            /\ Head(inp).c = Head(out)
            /\ KeepsAllButSeparators(Tail(inp), Tail(out))
         \/ /\ Head(inp).sep
            /\ KeepsAllButSeparators(Tail(inp), out)

\* C2: the chunks reproduce every non-whitespace character of the input once and
\* in order, except for the characters of separators
C2_ContentPreserved ==
    cpc = "done" => KeepsAllButSeparators(Marked(text), NonSpace(Concat(chunks)))

\* C3: no returned chunk is empty or made only of whitespace
C3_ChunksNonEmpty ==
    cpc = "done" => \A k \in DOMAIN chunks : Strip(chunks[k]) # <<>>

\* C4: no returned chunk has leading or trailing whitespace
C4_ChunksTrimmed ==
    cpc = "done" => \A k \in DOMAIN chunks : chunks[k] = Strip(chunks[k])

\* C5: the empty text and every whitespace-only text give the empty sequence
C5_BlankGivesEmpty ==
    (cpc = "done" /\ Strip(text) = <<>>) => chunks = <<>>

\* a whitespace-only text longer than the limit has been segmented
C5_Witness ==
    /\ cpc = "done"
    /\ text # <<>>
    /\ Strip(text) = <<>>
    /\ Len(text) > max_chunk_size
    /\ chunks = <<>>

\* the statement-by-statement run returns what the functions compute
TraceAgrees ==
    (cpc = "done" /\ stack = <<>>) => chunks = split_text_intelligently(text, max_chunk_size)

\* C6: the call terminates with a list, never raises, and never has more than
\* four functions in progress
C6_Terminates ==
    /\ [](Len(stack) <= 4 /\ cpc # "raised")
    /\ <>(cpc = "done")

\* a call that went down to the character-level cut has returned
C6_Witness ==
    /\ cpc = "done"
    /\ \E k \in DOMAIN FindTokens(text) : Len(FindTokens(text)[k]) > max_chunk_size
    /\ chunks # <<>>

\* the text goes to split_by_commas as a whole: one paragraph and one sentence
\* longer than the limit
WholeTextByCommas ==
    /\ Len(text) > max_chunk_size
    /\ Split(text, ParagraphBreak) = <<text>>
    /\ SplitSentences(text) = <<text>>

\* C21: every clause but the positionally last one goes to the buffer followed
\* by the comma-space separator, also when its text equals the last clause
C21_SeparatorReappended ==
    (cpc = "done" /\ WholeTextByCommas) =>
        LET parts == Split(text, CommaSpace)
        IN  /\ chunks = split_by_commas(text, max_chunk_size)
            /\ \A i \in 1..(Len(parts) - 1) : Segment(parts, i) = parts[i] \o CommaSpace

\* ' '.join(ss)
RECURSIVE JoinSp(_)
JoinSp(ss) ==
    IF ss = <<>> THEN <<>>
    ELSE IF Len(ss) = 1 THEN ss[1]
    ELSE ss[1] \o <<Space>> \o JoinSp(Tail(ss))

\* the longest run of leading sentences that fits when joined by single spaces
LongestRun(ss, max) ==
    CHOOSE n \in 1..Len(ss) :
        /\ Len(JoinSp(SubSeq(ss, 1, n))) <= max
        /\ n < Len(ss) => Len(JoinSp(SubSeq(ss, 1, n + 1))) > max

\* runs of consecutive whole sentences, each closed only when the next sentence
\* after a joining space would not fit
RECURSIVE GreedyRuns(_, _)
GreedyRuns(ss, max) ==
    IF ss = <<>> THEN <<>>
    ELSE LET n == LongestRun(ss, max)
         IN  <<Strip(JoinSp(SubSeq(ss, 1, n)))>> \o GreedyRuns(From(ss, n), max)

\* the text is one paragraph longer than the limit, and each of its sentences fits
SentencesFit ==
    /\ Len(text) > max_chunk_size
    /\ Split(text, ParagraphBreak) = <<text>>
    /\ \A k \in DOMAIN SplitSentences(text) : Len(SplitSentences(text)[k]) <= max_chunk_size

HelloWorld ==
    Chars(<<"H", "e", "l", "l", "o", " ", "w", "o", "r", "l", "d", ".", " ",
            "T", "h", "i", "s", " ", "i", "s", " ", "a", " ", "t", "e", "s", "t", ".">>)

\* segment('Hello world. This is a test.', 15) is the list of its two sentences
HelloWorldGivesTwo ==
    split_text_intelligently(HelloWorld, 15)
        = <<SubSeq(HelloWorld, 1, 12), SubSeq(HelloWorld, 14, 28)>>

\* C22: for a paragraph longer than the limit whose sentences all fit, the
\* chunks are the greedy runs of whole sentences joined by single spaces;
\* 'Hello world. This is a test.' with limit 15 gives its two sentences
C22_SentencesWhole ==
    /\ (cpc = "done" /\ SentencesFit) =>
           chunks = DropEmpty(GreedyRuns(SplitSentences(text), max_chunk_size))
    /\ HelloWorldGivesTwo

\* three sentences were packed into a chunk of two and a chunk of one
C22_Witness ==
    /\ cpc = "done"
    /\ SentencesFit
    /\ Len(SplitSentences(text)) = 3
    /\ Len(chunks) = 2
    /\ chunks[1] = JoinSp(SubSeq(SplitSentences(text), 1, 2))
    /\ chunks[2] = SplitSentences(text)[3]

\* the text is a single token without whitespace, longer than the limit
OneLongToken ==
    /\ Len(text) > max_chunk_size
    /\ \A k \in DOMAIN text : ~IsSpace(text[k])

\* the character-level cut of a token of 300 characters with limit 100 gives
\* 3 chunks of 100 characters
ThreeHundredGivesThree ==
    LET token == [k \in 1..300 |-> ord("a")]
        cut == CharCut(token, MAX_CHUNK_CHAR_SIZE)
    IN  Len(cut) = 3 /\ \A k \in 1..3 : cut[k] = SubSeq(token, 1, 100)

\* C23: a single token of L > max_chunk_size characters comes back as
\* ceil(L / max_chunk_size) chunks, all of max_chunk_size characters except
\* possibly the last, whose concatenation is the token
C23_TokenCutFixedWidth ==
    /\ (cpc = "done" /\ OneLongToken) =>
           /\ Len(chunks) = (Len(text) + max_chunk_size - 1) \div max_chunk_size
           /\ \A k \in 1..(Len(chunks) - 1) : Len(chunks[k]) = max_chunk_size
           /\ Concat(chunks) = text
    /\ ThreeHundredGivesThree

\* text.split(): the whitespace-delimited tokens of t
RECURSIVE Words(_)
Words(t) ==
    LET s == LStripOf(t, Whitespace)
        w == WordRun(s)
    IN  IF s = <<>> THEN <<>> ELSE <<SubSeq(s, 1, w)>> \o Words(From(s, w))

\* the consecutive slices of max characters of w
RECURSIVE FixedWidth(_, _)
FixedWidth(w, max) ==
    IF Len(w) <= max THEN <<w>>
    ELSE <<SubSeq(w, 1, max)>> \o FixedWidth(From(w, max), max)

\* the pieces a text may be taken apart into: its tokens, the tokens longer
\* than max in slices of max characters
RECURSIVE Pieces(_, _)
Pieces(ws, max) ==
    IF ws = <<>> THEN <<>> ELSE FixedWidth(Head(ws), max) \o Pieces(Tail(ws), max)

Decomma(s) == SelectSeq(s, LAMBDA c : c # Comma /\ ~IsSpace(c))

\* the chunks cs are consecutive runs of whole pieces, commas apart
RECURSIVE MadeOfWholePieces(_, _)
MadeOfWholePieces(pieces, cs) ==
    IF cs = <<>> THEN Decomma(Concat(pieces)) = <<>>
    ELSE \E n \in 0..Len(pieces) :
            /\ Decomma(Concat(SubSeq(pieces, 1, n))) = Decomma(Head(cs))
            /\ MadeOfWholePieces(From(pieces, n), Tail(cs))

\* C24: no token that fits within the limit has its characters in two chunks;
\* a token longer than the limit is cut at multiples of max_chunk_size
C24_TokensKeptWhole ==
    cpc = "done" => MadeOfWholePieces(Pieces(Words(text), max_chunk_size), chunks)

\* a token that fits stands whole in a chunk next to the slices of a longer one
C24_Witness ==
    /\ cpc = "done"
    /\ Len(Words(text)) = 2
    /\ Len(Words(text)[1]) = max_chunk_size
    /\ Len(Words(text)[2]) > max_chunk_size
    /\ Decomma(text) = NonSpace(text)
    /\ chunks = Pieces(Words(text), max_chunk_size)
    /\ max_chunk_size >= 2

----------------------------------------------------------------------------
(* Properties of the crossfade *)

\* min(floor(fade_duration * sample_rate), len(a), len(b))
OverlapLen == Min3(FadeSamples(sample_rate, fade_duration), Len(audio1), Len(audio2))

\* C9: the call does not fail and its result has
\* len(a) + len(b) - min(floor(fade_duration * sample_rate), len(a), len(b)) samples
C9_LengthLaw ==
    xpc = "done" =>
        /\ ~faded.raised
        /\ Len(faded.audio) = Len(audio1) + Len(audio2) - OverlapLen

\* C10: when the overlap is 0 samples long the result is a followed by b
C10_ZeroOverlapConcatenates ==
    (xpc = "done" /\ OverlapLen = 0) =>
        /\ ~faded.raised
        /\ faded.audio = audio1 \o audio2

\* C11: with fade_duration = 0 the call returns exactly a followed by b,
\* for every pair of buffers and every sample rate
C11_ZeroFadeConcatenates ==
    (xpc = "done" /\ fade_duration[1] = 0) =>
        /\ ~faded.raised
        /\ faded.audio = audio1 \o audio2

C11_Witness ==
    /\ xpc = "done"
    /\ fade_duration[1] = 0
    /\ Len(audio1) >= 2
    /\ Len(audio2) >= 2
    /\ faded.audio = audio1 \o audio2

\* the gain of overlap sample k of f on the fading-out and the fading-in side
FadeOutGain(k, f) == IF f = 1 THEN <<1, 1>> ELSE Frac(f - k, f - 1)

FadeInGain(k, f) == IF f = 1 THEN <<0, 1>> ELSE Frac(k - 1, f - 1)

\* result is a's head unchanged, then the overlap of f samples, then b's tail
\* unchanged
CrossfadeFrame(a, b, f, result) ==
    LET la == Len(a)
        lb == Len(b)
        r == result.audio
    IN  /\ ~result.raised
        /\ Len(r) = la + lb - f
        /\ \A k \in 1..(la - f) : r[k] = a[k]
        /\ \A k \in 1..(lb - f) : r[la + k] = b[f + k]
        /\ \A k \in 1..f :
               r[la - f + k] = FracAdd(FracMul(a[la - f + k], FadeOutGain(k, f)),
                                       FracMul(b[k], FadeInGain(k, f)))

\* C25: with an overlap of f >= 1 samples the call leaves the first len(a) - f
\* samples of a and the last len(b) - f samples of b unchanged, puts the sum of
\* the faded tail of a and the faded head of b between them, and does not
\* modify its inputs
C25_CrossfadeFrame ==
    [][xpc' = "done" =>
          /\ audio1' = audio1
          /\ audio2' = audio2
          /\ (OverlapLen >= 1 => CrossfadeFrame(audio1, audio2, OverlapLen, faded'))]_vars

C25_Witness ==
    /\ xpc = "done"
    /\ OverlapLen = 2
    /\ Len(audio1) = 3
    /\ Len(audio2) = 3
    /\ audio1[2] # audio2[1]
    /\ faded.audio[1] = audio1[1]
    /\ faded.audio[4] = audio2[3]
    /\ Len(faded.audio) = 4

----------------------------------------------------------------------------
(* Properties of the wrapper's initialize *)

Called == init_call.n > 0

\* C27: after initialize returns normally initialized is true,
\* current_lang_code == lang_code, current_voice == voice and voice_pack holds
\* the voice that voice names; a later call with the same language and voice
\* creates no pipeline and loads no voice
C27_ConsistentAfterInitialize ==
    (Called /\ ~init_call.raised) =>
        /\ service.initialized
        /\ service.current_lang_code = service.lang_code
        /\ service.current_voice = service.voice
        /\ service.voice_pack = service.voice
        /\ init_call.same_again => (init_call.pipelines = 0 /\ init_call.loads = 0
                                     /\ init_call.unchanged)

\* C28: a call re-enters initialize at most once and the instance switches
\* from CUDA to CPU at most once; a failure after the switch is raised; once
\* _gpu_fallback_attempted is set setup_device selects 'cpu'
C28_FallbackOnce ==
    /\ fallbacks <= 1
    /\ service.gpu_fallback_attempted => service.device = "cpu"
    /\ Called =>
          /\ init_call.reentries <= 1
          /\ init_call.failures = 2 => init_call.raised
          /\ (init_call.attempted /\ init_call.failures >= 1) =>
                 (init_call.raised /\ init_call.reentries = 0)
          /\ \A k \in DOMAIN init_call.setups :
                 init_call.setups[k].attempted => init_call.setups[k].device = "cpu"

\* a call on a CUDA machine after the switch: it sets the device up again
C28_Witness ==
    /\ Called
    /\ host = "cuda"
    /\ fallbacks = 1
    /\ init_call.attempted
    /\ init_call.setups # <<>>
    /\ init_call.failures = 1
    /\ init_call.raised
    /\ service.device = "cpu"

----------------------------------------------------------------------------
(* Properties of the request loop *)

\* C29: every non-blank line has exactly one response line, the responses are
\* in the order of the requests, a failed request leaves the loop running and
\* the loop ends only at end of input
C29_OneResponsePerLine ==
    lpc \in {"loop", "ended"} =>
        /\ Len(stdout) = nread
        /\ \A k \in DOMAIN stdout : stdout[k].line = k
        /\ lpc = "ended" <=> line = Eof

\* an invalid line, then a request that is served, then the end of input
C29_Witness ==
    /\ lpc = "ended"
    /\ nread = 2
    /\ stdout[1] = InvalidJsonLine(1)
    /\ stdout[2] = SuccessLine(2)

----------------------------------------------------------------------------
(* Properties of the progress map *)

Suspended == gen.pc \in {"yield_data", "yield_waiting", "sleep", "yield_completed"}

\* C30: the generator of progress_stream never holds progress_lock while it is
\* suspended at a yield or an await, and the event-loop thread never waits
\* for progress_lock forever
C30_LockNotHeldWhileSuspended ==
    /\ Suspended => progress_lock = "free"
    /\ loop_thread # "blocked"

----------------------------------------------------------------------------
(* Properties of the /tts handlers *)

\* the request names a voice or a language code the running server does not have
BadRequest ==
    /\ model
    /\ pipelines # {}
    /\ (request.voice \notin available_voices \/ request.lang_code \notin pipelines)

\* something failed on the server's side
ServerSideFailure == ~model \/ pipelines = {} \/ faults # {}

\* C26: an unknown voice or an unsupported language code is answered with
\* status 400 and without a call to the synthesis pipeline; status 500 is
\* only the answer to a failure on the server's side
C26_BadRequestIs400 ==
    qpc = "done" =>
        /\ BadRequest => (response.status = 400 /\ response.synth_calls = 0)
        /\ response.status = 500 => ServerSideFailure


\* the left-to-right fold of crossfade_audio over the first k buffers
RECURSIVE FoldUpTo(_)
FoldUpTo(k) ==
    IF k = 1 THEN [raised |-> FALSE, audio |-> buffers[1]]
    ELSE LET before == FoldUpTo(k - 1)
         IN  IF before.raised THEN before
             ELSE crossfade_audio(before.audio, buffers[k], concat_rate, <<1, 10>>)

\* F = floor(0.1 * sample_rate)
DefaultOverlap == concat_rate \div 10

RECURSIVE TotalLen(_)
TotalLen(bs) == IF bs = <<>> THEN 0 ELSE Len(Head(bs)) + TotalLen(Tail(bs))

\* C19: an empty list raises, a single buffer comes back unchanged, two or
\* more buffers give the left-to-right fold of crossfade_audio from the first
\* buffer, and when every buffer has at least F samples the result has the
\* sum of the lengths minus (n - 1) * F samples
C19_LeftFold ==
    kpc = "done" =>
        /\ Len(buffers) = 0 => concatenated.raised
        /\ Len(buffers) = 1 => concatenated = [raised |-> FALSE, audio |-> buffers[1]]
        /\ Len(buffers) >= 2 => concatenated = FoldUpTo(Len(buffers))
        /\ (Len(buffers) >= 1 /\ \A k \in DOMAIN buffers : Len(buffers[k]) >= DefaultOverlap)
              => /\ ~concatenated.raised
                 /\ Len(concatenated.audio) =
                        TotalLen(buffers) - (Len(buffers) - 1) * DefaultOverlap

\* three buffers were folded with an overlap of at least one sample
C19_Witness ==
    /\ kpc = "done"
    /\ Len(buffers) = 3
    /\ DefaultOverlap >= 1
    /\ \A k \in DOMAIN buffers : Len(buffers[k]) >= DefaultOverlap
    /\ Len(concatenated.audio) = TotalLen(buffers) - 2 * DefaultOverlap
    /\ buffers[1] # buffers[2]

----------------------------------------------------------------------------
(* Properties of the synthesis paths *)

\* C12: on every synthesis path no null waveform reaches
\* concatenate_audio_chunks, array concatenation or the WAV writer,
\* whatever the number of tuples the pipeline yields
C12_NullNeverAssembled ==
    \A k \in DOMAIN calls : ~HasNone(calls[k].args)

----------------------------------------------------------------------------
(* Properties of generate_speech_chunked *)

\* the container that was returned, as bytes
Container == FromHex(output)

\* the bytes that follow the 44-byte header
Payload == From(Container, 44)

\* c starts with a canonical 44-byte PCM header for 24000 Hz, 1 channel, 16 bit,
\* whose sizes obey the WAV relations and describe the bytes that follow
CanonicalHeader(c) ==
    /\ Len(c) >= 44
    /\ SubSeq(c, 1, 4) = RIFF
    /\ SubSeq(c, 9, 12) = WAVE
    /\ SubSeq(c, 13, 16) = FMT
    /\ U32At(c, 16) = 16
    /\ U16At(c, 20) = 1
    /\ U16At(c, 22) = 1
    /\ U32At(c, 24) = 24000
    /\ U16At(c, 34) = 16
    /\ SubSeq(c, 37, 40) = DATA
    /\ U32At(c, 4) = 36 + U32At(c, 40)
    /\ U32At(c, 28) = (U32At(c, 24) * U16At(c, 22) * U16At(c, 34)) \div 8
    /\ U32At(c, 28) = 48000
    /\ U16At(c, 32) = (U16At(c, 22) * U16At(c, 34)) \div 8
    /\ U16At(c, 32) = 2
    /\ U32At(c, 40) = Len(c) - 44

\* C7: the returned container starts with a canonical 44-byte PCM header whose
\* riff_size, byte_rate, block_align and data_size obey the WAV relations and
\* whose data_size is the number of payload bytes that follow
C7_HeaderConsistent ==
    gpc = "returned" => CanonicalHeader(Container)

\* a container spliced from the audio of at least two chunks was returned
C7_Witness ==
    /\ gpc = "returned"
    /\ Cardinality({i \in Indexes : ~outcome[i].exc /\ Len(outcome[i].hex) > 88}) >= 2
    /\ Len(Payload) >= 4

\* the 16-bit samples of the returned payload
PayloadSamples == [k \in 1..(Len(Payload) \div 2) |-> U16At(Payload, 2 * (k - 1))]

\* C8: the payloads are in chunk order in the returned container, whatever the
\* order the workers completed in: a sample of chunk i never follows one of chunk j > i
C8_PayloadsInChunkOrder ==
    gpc = "returned" =>
        LET samples == PayloadSamples
        IN  \A p, q \in DOMAIN samples : p < q => samples[p] <= samples[q]

\* two chunks with audio completed in the reverse of their order and were spliced
C8_Witness ==
    /\ gpc = "returned"
    /\ \E p, q \in DOMAIN finished :
          /\ p < q
          /\ finished[p] > finished[q]
          /\ Len(outcome[finished[p]].hex) > 88
          /\ Len(outcome[finished[q]].hex) > 88
          /\ LET samples == PayloadSamples
             IN  \E a, b \in DOMAIN samples :
                    samples[a] = finished[q] + 1 /\ samples[b] = finished[p] + 1

\* C14: when the request does not fail, every chunk whose synthesis failed
\* has a log entry of its own that reports it as dropped
C14_FailedChunkLogged ==
    gpc = "returned" =>
        \A i \in Indexes :
            outcome[i].exc =>
                \E n \in DOMAIN log : log[n].idx = i /\ log[n].msg # "starting"

\* the chunks whose synthesis call holds a slot
InProgress == {i \in Indexes : wstate[i] \in {"submitted", "pipeline", "threaddone"}}

\* C17: at most max_concurrency synthesis calls are in progress, max_concurrency
\* being the environment value clamped to at least 1 (2 when unset or
\* unparsable), and every worker comes to hold a slot and run
C17_BoundedNoStarvation ==
    /\ [](gpc # "start" =>
            /\ max_concurrency = (IF env_concurrency.kind # "int" THEN 2
                                  ELSE IF env_concurrency.n < 1 THEN 1
                                  ELSE env_concurrency.n)
            /\ Cardinality(InProgress) <= max_concurrency)
    /\ \A i \in 0..MaxChunks :
          (i \in Indexes /\ wstate[i] \in {"created", "waiting"})
              ~> (i \in Indexes /\ wstate[i] = "pipeline")

\* a worker that had to wait for a slot is inside the pipeline while the
\* slots are all taken
C17_Witness ==
    /\ gpc = "gather"
    /\ Cardinality(InProgress) = max_concurrency
    /\ \E i \in Indexes : wstate[i] = "pipeline" /\ i >= max_concurrency
    /\ \E i \in Indexes : wstate[i] = "waiting"

\* C18: at no time are two pool threads inside self.pipeline(...)
C18_PipelineSerialized ==
    Cardinality({i \in Indexes : wstate[i] = "pipeline"}) <= 1

----------------------------------------------------------------------------
(* Properties of the splice *)

\* the container the splice built, as bytes
Built == FromHex(assembled.hex)

\* the offsets at which the four bytes "data" stand in b
MarkerPos(b) == {p \in 0..(Len(b) - 4) : SubSeq(b, p + 1, p + 4) = DATA}

FirstMarker(b) == CHOOSE p \in MarkerPos(b) : \A q \in MarkerPos(b) : p <= q

\* b starts with the RIFF magic and holds no 'data' marker
Unmarked(b) == StartsWith(b, RIFF) /\ MarkerPos(b) = {}

\* b yields a payload: it is raw audio, or bytes follow the marker and its size field
Extractable(b) ==
    StartsWith(b, RIFF) => (MarkerPos(b) # {} /\ FirstMarker(b) + 8 < Len(b))

ExtractedPayload(b) == IF StartsWith(b, RIFF) THEN From(b, FirstMarker(b) + 8) ELSE b

\* the payloads of the chunks that yield one, in chunk order
ExtractedPayloads ==
    LET kept == SelectSeq(chunk_buffers, Extractable)
    IN  [k \in DOMAIN kept |-> ExtractedPayload(kept[k])]

\* C13: a RIFF buffer without a 'data' marker is skipped with a log line, the
\* other chunks are assembled into a valid container, and the splice fails
\* exactly when no chunk yields a payload
C13_UnmarkedSkipped ==
    apc = "done" =>
        /\ \A k \in DOMAIN chunk_buffers :
               Unmarked(chunk_buffers[k]) =>
                   \E n \in DOMAIN assembled.printed :
                       assembled.printed[n] = [msg |-> "no data chunk", idx |-> k - 1]
        /\ assembled.failed <=> \A k \in DOMAIN chunk_buffers : ~Extractable(chunk_buffers[k])
        /\ ~assembled.failed =>
               LET c == Built
               IN  /\ CanonicalHeader(c)
                   /\ From(c, 44) = PadToSample(Concat(ExtractedPayloads))

\* a container was built although one of two chunks had no 'data' marker
C13_Witness ==
    /\ apc = "done"
    /\ ~assembled.failed
    /\ \E k \in DOMAIN chunk_buffers : Unmarked(chunk_buffers[k])
    /\ Len(assembled.pcm) >= 2

\* C15: the payload of the built container is the extracted payloads in chunk
\* order, followed by one zero byte exactly when their total length is odd;
\* data_size is that total rounded up to the next even number and riff_size is
\* 36 more (3000 and 3036 for payloads of 1000 and 2000 bytes)
C15_PaddedToEven ==
    /\ (apc = "done" /\ ~assembled.failed) =>
           LET c == Built
               joined == Concat(ExtractedPayloads)
               data_size == U32At(c, 40)
           IN  /\ From(c, 44) = joined \o (IF Len(joined) % 2 = 1 THEN <<0>> ELSE <<>>)
               /\ data_size % 2 = 0
               /\ data_size = Len(joined) + (Len(joined) % 2)
               /\ data_size = Len(c) - 44
               /\ U32At(c, 4) = 36 + data_size
    /\ LET header == WavHeader(WavSampleRate, NumChannels, BitsPerSample, 1000 + 2000)
       IN  U32At(header, 40) = 3000 /\ U32At(header, 4) = 3036

\* two chunks gave payloads of an odd total length
C15_Witness ==
    /\ apc = "done"
    /\ ~assembled.failed
    /\ Len(ExtractedPayloads) = 2
    /\ Len(Concat(ExtractedPayloads)) % 2 = 1
    /\ Len(Concat(ExtractedPayloads)) >= 3

\* the offset of the data subchunk of container c, found by walking the
\* subchunks from offset off
RECURSIVE DataSubchunkAt(_, _)
DataSubchunkAt(c, off) ==
    IF off + 8 > Len(c) THEN -1
    ELSE IF SubSeq(c, off + 1, off + 4) = DATA THEN off
    ELSE DataSubchunkAt(c, off + 8 + U32At(c, off + 4) + (U32At(c, off + 4) % 2))

\* the bytes that the size field of the data subchunk of c describes
DataPayload(c) ==
    LET off == DataSubchunkAt(c, 12)
    IN  SubSeq(c, off + 9, off + 8 + U32At(c, off + 4))

\* C16: the splice of a single well-formed container gives a container with a
\* canonical header whose payload is exactly the payload of the data subchunk
C16_SinglePayloadPreserved ==
    (apc = "done" /\ Len(chunk_buffers) = 1 /\ chunk_buffers[1] \in WellFormedWavs) =>
        /\ ~assembled.failed
        /\ CanonicalHeader(Built)
        /\ From(Built, 44) = DataPayload(chunk_buffers[1])

\* the container built around a non-empty payload of even length reads back as
\* 24000 Hz, 1 channel, 16 bit at the canonical offsets, and the assembler's
\* own extraction rule gives back the payload: payloads of a few bytes
SmallPayloadRoundTrip ==
    (apc = "done" /\ ~assembled.failed /\ assembled.pcm # <<>>
                  /\ Len(assembled.pcm) % 2 = 0) =>
        LET c == Built
            reparsed == ExtractAudio(c)
        IN  /\ U32At(c, 24) = WavSampleRate
            /\ U16At(c, 22) = NumChannels
            /\ U16At(c, 34) = BitsPerSample
            /\ reparsed.kept
            /\ reparsed.audio_data = assembled.pcm

\* C20: the container built from 24000 Hz, 1 channel, 16 bit and a non-empty
\* payload of even length reads back as these three values at the canonical
\* offsets, and the assembler's extraction rule gives back exactly the payload
C20_FramingRoundTrip ==
    rpc = "done" =>
        /\ framed.rate = WavSampleRate
        /\ framed.channels = NumChannels
        /\ framed.bits = BitsPerSample
        /\ framed.kept
        /\ framed.payload = Silence(<<>>, pcm_len)

====
